---- MODULE Spec2Model ----
(***************************************************************************)
(* SafetySnap: the rule-based PPE detection pipeline of                    *)
(* backend/src/detection.js and the upload route of                        *)
(* backend/src/routes/images.js.                                           *)
(*                                                                         *)
(* Numbers.  TLC has integers only, so                                     *)
(*   - a confidence is an integer in units of 1/100000 (0.75 = 75000);     *)
(*     the few sums of the gate weights that IEEE doubles do not represent *)
(*     exactly are kept one unit above/below the decimal value (FErr), so  *)
(*     that every comparison of two confidences, or of a confidence and a  *)
(*     threshold, comes out as it does in JavaScript;                      *)
(*   - a normalised bbox is kept as numerators x, y, width, height over    *)
(*     the denominators sx, sy (ten times the image width / height, since  *)
(*     the refined boxes have tenths of a pixel); all boxes of one image   *)
(*     share sx and sy;                                                    *)
(*   - an IoU is the pair <<intersection, union>> of areas.                *)
(*                                                                         *)
(* Images.  A pixel buffer is width x height pixels whose colours repeat   *)
(* in a 2 x 2 tile of bands: rows alternate in bands of rowBands[1] and    *)
(* rowBands[2] pixels, columns in bands of colBands[1] and colBands[2].    *)
(* The loops over the pixels of a window are evaluated band by band        *)
(* (CellCount), which yields exactly the sums the loops compute.           *)
(***************************************************************************)
EXTENDS Integers, Sequences, FiniteSets, TLC

VARIABLES
    image,        \* the upload given to detectPPE: pixels, decodability, name
    dpc,          \* position of the detectPPE invocation (its await points)
    width,        \* getImageInfo: metadata.width
    height,       \* getImageInfo: metadata.height
    detections,   \* detectPPEObjects: the local array `detections`
    result,       \* what detectPPE resolved to
    threw,        \* TRUE iff detectPPE rejected
    cands,        \* mergeOverlappingDetections: argument `detections`
    thr,          \* mergeOverlappingDetections: argument `overlapThreshold`
    mergedOut,    \* mergeOverlappingDetections: its return value
    mpc,          \* "in" before the merger ran, "out" after
    listA,        \* generateDetectionHash: first list
    listB,        \* generateDetectionHash: second list
    hashA,        \* generateDetectionHash(listA)
    hashB,        \* generateDetectionHash(listB)
    hpc,          \* "in" before hashing, "out" after
    imagesTable,      \* rows of the table images, in rowid order
    detectionsTable,  \* rows of the table detections, in id order
    uploads,          \* the upload directory: file path -> file content
    reqs,             \* the POST /api/images requests: handler position, locals
    calls,            \* the DELETE and GET /api/images/:id requests
    ovA,          \* calculateOverlap: argument `bbox1`
    ovB,          \* calculateOverlap: argument `bbox2`
    ovR,          \* calculateOverlap: its return value
    opc,          \* "in" before calculateOverlap ran, "out" after
    win,          \* a scan window: the buffer and the window's corner
    wres,         \* what a pass makes of the window
    wpc,          \* "in" before a pass looked at the window, "out" after
    scene,        \* the buffer given to the scene analysis of persons
    sceneOut,     \* what the scene analysis returned
    spc,          \* "in" before the scene analysis ran, "out" after
    inv,          \* the concurrent detectPPE invocations: each one's locals
    ppeColors     \* the module-level binding PPE_COLORS

vars == <<image, dpc, width, height, detections, result, threw,
          cands, thr, mergedOut, mpc, listA, listB, hashA, hashB, hpc,
          imagesTable, detectionsTable, uploads, reqs, calls,
          ovA, ovB, ovR, opc, win, wres, wpc,
          scene, sceneOut, spc, inv, ppeColors>>

detectVars == <<image, dpc, width, height, detections, result, threw>>
mergeVars == <<cands, thr, mergedOut, mpc>>
hashVars == <<listA, listB, hashA, hashB, hpc>>
apiVars == <<imagesTable, detectionsTable, uploads, reqs, calls>>
overlapVars == <<ovA, ovB, ovR, opc>>
windowVars == <<win, wres, wpc>>
sceneVars == <<scene, sceneOut, spc>>
pairVars == <<inv, ppeColors>>
auxVars == <<overlapVars, windowVars, sceneVars, pairVars>>

IdleOverlap == ovA = <<>> /\ ovB = <<>> /\ ovR = <<>> /\ opc = "idle"
IdleWindow == win = <<>> /\ wres = <<>> /\ wpc = "idle"
IdleScene == scene = <<>> /\ sceneOut = <<>> /\ spc = "idle"
IdlePair == inv = <<>> /\ ppeColors = <<>>
IdleAux == IdleOverlap /\ IdleWindow /\ IdleScene /\ IdlePair

Min(a, b) == IF a < b THEN a ELSE b
Max(a, b) == IF a > b THEN a ELSE b
Abs(a) == IF a < 0 THEN 0 - a ELSE a

RECURSIVE SeqSum(_)
SeqSum(s) == IF s = <<>> THEN 0 ELSE Head(s) + SeqSum(Tail(s))

RECURSIVE Concat(_)
Concat(ss) == IF ss = <<>> THEN <<>> ELSE Head(ss) \o Concat(Tail(ss))

\* floor(n * num / den) for n, num, den >= 0 (Math.floor of a product)
FloorMul(n, num, den) == (n * num) \div den

\* floor(sqrt(n)) by bisection
RECURSIVE ISqrtIn(_, _, _)
ISqrtIn(n, lo, hi) ==
    IF lo >= hi THEN lo
    ELSE LET mid == (lo + hi + 1) \div 2
         IN IF mid * mid <= n THEN ISqrtIn(n, mid, hi) ELSE ISqrtIn(n, lo, mid - 1)

ISqrt(n) == ISqrtIn(n, 0, Min(n, 46340))

\* floor(j * sqrt(n)), given root = floor(sqrt(n))
ISqrtTimes(j, n, root) == ISqrtIn(j * j * n, j * root, j * root + j)

(***************************************************************************)
(* Confidence arithmetic                                                   *)
(***************************************************************************)
\* deviation of the double a + b from the decimal sum, in the sign of the
\* rounding error (0.4 + 0.2 = 0.6000000000000001, 0.7 + 0.2 =
\* 0.8999999999999999, 0.7 + 0.1 = 0.7999999999999999, 0.2 + 0.1 =
\* 0.30000000000000004); every other sum of the gate weights is exact or
\* carries the error of its first operand
FErr(a, b) ==
    CASE a = 40000 /\ b = 20000 -> 1
      [] a = 20000 /\ b = 10000 -> 1
      [] a = 70000 /\ b = 20000 -> 0 - 1
      [] a = 70000 /\ b = 10000 -> 0 - 1
      [] OTHER -> 0

\* `confidence += w`
FAdd(a, b) == IF b = 0 THEN a ELSE a + b + FErr(a, b)

\* Number.prototype.toFixed(digits) of num/den >= 0, as the integer
\* round(num/den * 10^digits).  A value exactly halfway between two
\* neighbours is rounded up here; JavaScript rounds the double nearest to
\* num/den, which may lie on either side of the halfway point.
Pow10(d) == IF d = 2 THEN 100 ELSE IF d = 3 THEN 1000 ELSE 1
toFixed(num, den, digits) == (2 * num * Pow10(digits) + den) \div (2 * den)

(***************************************************************************)
(* PPE_COLORS                                                              *)
(***************************************************************************)
PPE_COLORS ==
    [helmet |->
        [green    |-> [r |-> <<20, 120>>,  g |-> <<80, 180>>,  b |-> <<20, 100>>],
         yellow   |-> [r |-> <<180, 255>>, g |-> <<180, 255>>, b |-> <<0, 100>>],
         darkBlue |-> [r |-> <<0, 80>>,    g |-> <<0, 80>>,    b |-> <<80, 180>>],
         orange   |-> [r |-> <<200, 255>>, g |-> <<100, 180>>, b |-> <<0, 80>>]],
     vest |->
        [highVis  |-> [r |-> <<150, 255>>, g |-> <<150, 255>>, b |-> <<0, 120>>]]]

\* Object.entries(PPE_COLORS.helmet): insertion order
HelmetColorNames == <<"green", "yellow", "darkBlue", "orange">>

(***************************************************************************)
(* Pixel buffers                                                           *)
(***************************************************************************)
Palette ==
    [black    |-> [r |-> 0,   g |-> 0,   b |-> 0],
     skin     |-> [r |-> 200, g |-> 150, b |-> 100],
     yellow   |-> [r |-> 230, g |-> 220, b |-> 40],
     white    |-> [r |-> 255, g |-> 255, b |-> 255],
     darkBlue |-> [r |-> 40,  g |-> 40,  b |-> 120]]

ColourNames == {"black", "skin", "yellow", "white", "darkBlue"}

Cells == {<<0, 0>>, <<0, 1>>, <<1, 0>>, <<1, 1>>}

\* number of n in [0, k) lying in band `par` of the alternation bands
BandPrefix(bands, k, par) ==
    LET period == bands[1] + bands[2]
        zero == (k \div period) * bands[1] + Min(k % period, bands[1])
    IN IF par = 0 THEN zero ELSE k - zero

BandCount(bands, from, to, par) ==
    IF to <= from THEN 0 ELSE BandPrefix(bands, to, par) - BandPrefix(bands, from, par)

BandOf(bands, n) == IF n % (bands[1] + bands[2]) < bands[1] THEN 0 ELSE 1

\* the pixel {r, g, b} at (px, py)
PixelAt(img, px, py) ==
    Palette[img.tile[<<BandOf(img.rowBands, py), BandOf(img.colBands, px)>>]]

(***************************************************************************)
(* Pixel lists.  A list of pixels cut from the buffer in row-major order   *)
(* is [img, x, y, w, from, to]: the pixels with indices from..to-1 of the  *)
(* window whose rows are w pixels wide and whose first pixel is (x, y).    *)
(***************************************************************************)
PLen(pixels) == pixels.to - pixels.from

\* number of pixels with index in [0, k) of the window that lie in `cell`
CellPrefix(pixels, k, cell) ==
    IF pixels.w = 0 THEN 0
    ELSE LET img == pixels.img
             full == k \div pixels.w
             rest == k % pixels.w
         IN BandCount(img.rowBands, pixels.y, pixels.y + full, cell[1])
              * BandCount(img.colBands, pixels.x, pixels.x + pixels.w, cell[2])
            + (IF BandOf(img.rowBands, pixels.y + full) = cell[1]
               THEN BandCount(img.colBands, pixels.x, pixels.x + rest, cell[2])
               ELSE 0)

CellCount(pixels, cell) ==
    CellPrefix(pixels, pixels.to, cell) - CellPrefix(pixels, pixels.from, cell)

CellPixel(pixels, cell) == Palette[pixels.img.tile[cell]]

\* `for (const pixel of pixels) total += F(pixel)`
SumPixels(pixels, F(_)) ==
    CellCount(pixels, <<0, 0>>) * F(CellPixel(pixels, <<0, 0>>))
  + CellCount(pixels, <<0, 1>>) * F(CellPixel(pixels, <<0, 1>>))
  + CellCount(pixels, <<1, 0>>) * F(CellPixel(pixels, <<1, 0>>))
  + CellCount(pixels, <<1, 1>>) * F(CellPixel(pixels, <<1, 1>>))

\* pixels.slice(a, b) for integers 0 <= a, b
slice(pixels, a, b) ==
    LET lo == Min(a, PLen(pixels))
        hi == Max(lo, Min(b, PLen(pixels)))
    IN [pixels EXCEPT !.from = pixels.from + lo, !.to = pixels.from + hi]

extractImageRegion(data, w0, h0, x, y, w, h) ==
    LET endX == Min(x + w, w0)
        endY == Min(y + h, h0)
        cols == Max(0, endX - x)
        rows == Max(0, endY - y)
    IN [img |-> data, x |-> x, y |-> y, w |-> cols, from |-> 0, to |-> cols * rows]

\* Math.round(total / count), count > 0
RoundDiv(total, count) == (2 * total + count) \div (2 * count)

Sum3(p) == p.r + p.g + p.b

\* brightness is the pair <<sum of (r+g+b), 3 * 255 * count>>
analyzeColors(pixels) ==
    IF PLen(pixels) = 0
    THEN [dominant |-> [r |-> 0, g |-> 0, b |-> 0], brightness |-> <<0, 1>>]
    ELSE LET count == PLen(pixels)
         IN [dominant |->
                [r |-> RoundDiv(SumPixels(pixels, LAMBDA p : p.r), count),
                 g |-> RoundDiv(SumPixels(pixels, LAMBDA p : p.g), count),
                 b |-> RoundDiv(SumPixels(pixels, LAMBDA p : p.b), count)],
             brightness |-> <<SumPixels(pixels, Sum3), 765 * count>>]

NonZero(p) == IF p.r + p.g + p.b > 30 THEN 1 ELSE 0

\* uniformity (= coverage) is the pair <<non-zero pixels, pixels>>
ShapeResult(len, nz, clen, cnz) ==
    \* centerCoverage > coverage * 0.8; 0/0 is NaN and compares false
    [roundness |-> IF clen > 0 /\ 5 * cnz * len > 4 * nz * clen THEN 80000 ELSE 40000,
     uniformity |-> <<nz, len>>,
     edgeDensity |-> IF 5 * nz > 3 * len THEN 70000 ELSE 30000]

ShapeOf(pixels, centerPixels) ==
    ShapeResult(PLen(pixels), SumPixels(pixels, NonZero),
                PLen(centerPixels), SumPixels(centerPixels, NonZero))

analyzeShape(pixels, blockSize) ==
    ShapeOf(pixels, slice(pixels, FloorMul(PLen(pixels), 3, 10),
                          FloorMul(PLen(pixels), 7, 10)))

isColorInRange(color, range) ==
    /\ color.r >= range.r[1] /\ color.r <= range.r[2]
    /\ color.g >= range.g[1] /\ color.g <= range.g[2]
    /\ color.b >= range.b[1] /\ color.b <= range.b[2]

\* the first colour of PPE_COLORS.helmet the dominant colour lies in
RECURSIVE FirstHelmetColor(_, _)
FirstHelmetColor(color, i) ==
    IF i > Len(HelmetColorNames) THEN "unknown"
    ELSE IF isColorInRange(color, PPE_COLORS.helmet[HelmetColorNames[i]])
         THEN HelmetColorNames[i]
         ELSE FirstHelmetColor(color, i + 1)

\* the gates of analyzeHelmetRegion on its two analyses
HelmetVerdict(confidence, detectedColor) ==
    [isHelmet |-> confidence > 70000,
     confidence |-> Min(confidence, 95000),
     color |-> detectedColor]

\* gates that grant the colour weight to every colour
HelmetGatesAnyColour(detectedColor, shapeAnalysis) ==
    LET c1 == 40000
        c2 == FAdd(c1, IF shapeAnalysis.roundness > 60000 THEN 30000 ELSE 0)
        c3 == FAdd(c2, IF 10 * shapeAnalysis.uniformity[1]
                               > 7 * shapeAnalysis.uniformity[2]
                           THEN 20000 ELSE 0)
    IN FAdd(c3, IF shapeAnalysis.edgeDensity > 50000 THEN 10000 ELSE 0)

HelmetGates(detectedColor, shapeAnalysis) ==
    LET c1 == IF detectedColor # "unknown" THEN 40000 ELSE 0
        c2 == FAdd(c1, IF shapeAnalysis.roundness > 60000 THEN 30000 ELSE 0)
        c3 == FAdd(c2, IF 10 * shapeAnalysis.uniformity[1]
                               > 7 * shapeAnalysis.uniformity[2]
                           THEN 20000 ELSE 0)
    IN FAdd(c3, IF shapeAnalysis.edgeDensity > 50000 THEN 10000 ELSE 0)

HelmetColored(detectedColor, shapeAnalysis) ==
    HelmetVerdict(HelmetGates(detectedColor, shapeAnalysis), detectedColor)

HelmetScore(colorAnalysis, shapeAnalysis) ==
    HelmetColored(FirstHelmetColor(colorAnalysis.dominant, 1), shapeAnalysis)

analyzeHelmetRegion(regionPixels, blockSize) ==
    IF PLen(regionPixels) = 0
    THEN [isHelmet |-> FALSE, confidence |-> 0, color |-> "none"]
    ELSE HelmetScore(analyzeColors(regionPixels), analyzeShape(regionPixels, blockSize))

\* rows[j] of analyzePattern: the pair <<sum of (r+g+b), 3 * row.length>> of
\* pixels.slice(i, i + pixelsPerRow) for i = j * sqrt(pixels.length)
RowBrightness(row) == <<SumPixels(row, Sum3), 3 * PLen(row)>>

PatternRow(pixels, j, root) ==
    RowBrightness(slice(pixels, ISqrtTimes(j, PLen(pixels), root),
                        ISqrtTimes(j + 1, PLen(pixels), root)))

\* a > b + 50 for the averages a, b
Brighter50(a, b) == a[1] * b[2] > b[1] * a[2] + 50 * a[2] * b[2]

\* the rows of analyzePattern: one per i = 0, p, 2p, .. below pixels.length,
\* p = sqrt(pixels.length) = root or a little more
PatternRows(pixels, root) ==
    [j \in 1..(IF root * root = PLen(pixels) THEN root ELSE root + 1) |->
        PatternRow(pixels, j - 1, root)]

\* the count of rows brighter by more than 50 than both neighbours
CountStripes(rows) ==
    Cardinality({i \in 2..(Len(rows) - 1) :
        Brighter50(rows[i], rows[i - 1]) /\ Brighter50(rows[i], rows[i + 1])})

PatternResult(stripePatterns) ==
    [hasReflectiveStripes |-> stripePatterns >= 2,
     hasHorizontalStripes |-> stripePatterns >= 1,
     stripeCount |-> stripePatterns]

analyzePattern(pixels, blockSize) ==
    PatternResult(CountStripes(PatternRows(pixels, ISqrt(PLen(pixels)))))

\* the gates of analyzeVestRegion on its two analyses
VestVerdict(confidence, detectedColor) ==
    [isVest |-> confidence > 65000,
     confidence |-> Min(confidence, 95000),
     color |-> detectedColor]

VestScore(colorAnalysis, patternAnalysis) ==
    LET highVis == isColorInRange(colorAnalysis.dominant, PPE_COLORS.vest.highVis)
        c1 == IF highVis THEN 40000 ELSE 0
        c2 == FAdd(c1, IF patternAnalysis.hasReflectiveStripes THEN 30000 ELSE 0)
        c3 == FAdd(c2, IF patternAnalysis.hasHorizontalStripes THEN 20000 ELSE 0)
        \* brightness > 0.6
        confidence == FAdd(c3, IF 5 * colorAnalysis.brightness[1]
                                    > 3 * colorAnalysis.brightness[2]
                               THEN 10000 ELSE 0)
    IN VestVerdict(confidence, IF highVis THEN "high-vis" ELSE "unknown")

analyzeVestRegion(regionPixels, blockSize) ==
    IF PLen(regionPixels) = 0
    THEN [isVest |-> FALSE, confidence |-> 0, color |-> "none"]
    ELSE VestScore(analyzeColors(regionPixels), analyzePattern(regionPixels, blockSize))

IsSkin(p) ==
    IF /\ p.r > 95 /\ p.g > 40 /\ p.b > 20
       /\ p.r > p.g /\ p.r > p.b
       /\ p.r - p.g > 15
    THEN 1 ELSE 0

\* analyzeSkinTone without its guard: 0 / 0 is NaN, written -1
analyzeSkinToneUnguarded(pixels) ==
    IF PLen(pixels) = 0 THEN -1
    ELSE (SumPixels(pixels, IsSkin) * 100000) \div PLen(pixels)

\* skinPixels / pixels.length, in units of 1/100000
analyzeSkinTone(pixels) ==
    IF PLen(pixels) = 0 THEN 0
    ELSE (SumPixels(pixels, IsSkin) * 100000) \div PLen(pixels)

\* Math.max(0, 1 - variance / n / 150) as <<150 * n - variance, 150 * n>>
UniformityScore(variance, n) ==
    IF variance >= 150 * n THEN <<0, 1>> ELSE <<150 * n - variance, 150 * n>>

UniformityOf(pixels, avgColor) ==
    [score |-> UniformityScore(
                   SumPixels(pixels,
                       LAMBDA p : Abs(p.r - avgColor.r) + Abs(p.g - avgColor.g)
                                  + Abs(p.b - avgColor.b)),
                   PLen(pixels)),
     color |-> avgColor]

analyzeUniformity(pixels) ==
    IF PLen(pixels) = 0 THEN [score |-> <<0, 1>>, color |-> [r |-> 0, g |-> 0, b |-> 0]]
    ELSE UniformityOf(pixels, analyzeColors(pixels).dominant)

(***************************************************************************)
(* Scans                                                                   *)
(***************************************************************************)
\* the values from, from + stride, .. below bound: `for (v = from; v < bound; v += stride)`
Steps(from, bound, stride) ==
    IF bound <= from THEN <<>>
    ELSE [i \in 1..((bound - from + stride - 1) \div stride) |-> from + (i - 1) * stride]

\* the body of a `for y / for x` nest, in loop order: Body(x, y) is the
\* sequence of elements the iteration pushes
ScanLoop(ys, xs, Body(_, _)) ==
    Concat([i \in 1..Len(ys) |-> Concat([j \in 1..Len(xs) |-> Body(xs[j], ys[i])])])

\* {x: a / width, y: b / height, width: c / width, height: d / height} for
\* a, b, c, d in tenths of a pixel
NormBox(a, b, c, d, w0, h0) ==
    [x |-> a, y |-> b, width |-> c, height |-> d, sx |-> 10 * w0, sy |-> 10 * h0]

\* n * f for f in hundredths, in tenths of a pixel
Tenths(n, hundredths) == (n * hundredths) \div 10

\* the `if (skinToneScore > 0.6) regions.push(..)` of findPersonRegions
PersonHit(skinToneScore, x, y, blockSize) ==
    IF skinToneScore > 60000
    THEN <<[x |-> x, y |-> y, width |-> blockSize, height |-> blockSize,
            confidence |-> skinToneScore]>>
    ELSE <<>>

findPersonRegions(data, w0, h0) ==
    LET blockSize == 64
        stride == 32
        Body(x, y) ==
            PersonHit(analyzeSkinTone(
                          extractImageRegion(data, w0, h0, x, y, blockSize, blockSize)),
                      x, y, blockSize)
    IN ScanLoop(Steps(0, h0 - blockSize, stride), Steps(0, w0 - blockSize, stride), Body)

\* the loop of detectPerson over the regions found
PersonDetections(personRegions, w0, h0) ==
    LET kept == SelectSeq(personRegions, LAMBDA region : region.confidence > 60000)
    IN [i \in 1..Len(kept) |->
          [label |-> "person",
           confidence |-> kept[i].confidence,
           color |-> "none",
           bbox |-> NormBox(10 * kept[i].x, 10 * kept[i].y,
                            10 * kept[i].width, 10 * kept[i].height, w0, h0)]]

detectPerson(imageData, w0, h0) ==
    PersonDetections(findPersonRegions(imageData, w0, h0), w0, h0)

\* refineHelmetBounds without the clamp to the image
refineHelmetBoundsUnclamped(data, w0, h0, x, y, blockSize) ==
    LET expandedSize == FloorMul(blockSize, 15, 10)
        startX == Max(0, 10 * x - Tenths(blockSize, 25))
        startY == Max(0, 10 * y - Tenths(blockSize, 25))
    IN [x |-> startX, y |-> startY,
        width |-> 10 * expandedSize, height |-> 10 * expandedSize]

refineHelmetBounds(data, w0, h0, x, y, blockSize) ==
    LET expandedSize == FloorMul(blockSize, 15, 10)
        startX == Max(0, 10 * x - Tenths(blockSize, 25))
        startY == Max(0, 10 * y - Tenths(blockSize, 25))
    IN [x |-> startX,
        y |-> startY,
        width |-> Min(10 * expandedSize, 10 * w0 - startX),
        height |-> Min(10 * expandedSize, 10 * h0 - startY)]

refineVestBoundsUnclipped(data, w0, h0, x, y, blockSize) ==
    LET expandedWidth == FloorMul(blockSize, 18, 10)
        expandedHeight == FloorMul(blockSize, 12, 10)
        startX == Max(0, 10 * x - Tenths(blockSize, 40))
        startY == Max(0, 10 * y - Tenths(blockSize, 10))
    IN [x |-> startX,
        y |-> startY,
        width |-> 10 * expandedWidth,
        height |-> 10 * expandedHeight]

refineVestBounds(data, w0, h0, x, y, blockSize) ==
    LET expandedWidth == FloorMul(blockSize, 18, 10)
        expandedHeight == FloorMul(blockSize, 12, 10)
        startX == Max(0, 10 * x - Tenths(blockSize, 40))
        startY == Max(0, 10 * y - Tenths(blockSize, 10))
    IN [x |-> startX,
        y |-> startY,
        width |-> Min(10 * expandedWidth, 10 * w0 - startX),
        height |-> Min(10 * expandedHeight, 10 * h0 - startY)]

\* bbox1, bbox2 over the same sx, sy; the result is <<intersection, union>>
calculateOverlap(bbox1, bbox2) ==
    LET x1 == Max(bbox1.x, bbox2.x)
        y1 == Max(bbox1.y, bbox2.y)
        x2 == Min(bbox1.x + bbox1.width, bbox2.x + bbox2.width)
        y2 == Min(bbox1.y + bbox1.height, bbox2.y + bbox2.height)
    IN IF x2 <= x1 \/ y2 <= y1 THEN <<0, 1>>
       ELSE LET intersection == (x2 - x1) * (y2 - y1)
                area1 == bbox1.width * bbox1.height
                area2 == bbox2.width * bbox2.height
            IN <<intersection, area1 + area2 - intersection>>

\* overlap >= overlapThreshold
MeetsOrExceeds(overlap, threshold) ==
    overlap[1] * threshold[2] >= threshold[1] * overlap[2]

\* overlap > overlapThreshold, the threshold being <<num, den>>
Exceeds(overlap, threshold) == overlap[1] * threshold[2] > threshold[1] * overlap[2]

\* a test that overlooks the labels
OverlapsAnyLabel(current, det, overlapThreshold) ==
    Exceeds(calculateOverlap(current.bbox, det.bbox), overlapThreshold)

\* overlap > overlapThreshold && current.label === detections[j].label
Overlaps(current, det, overlapThreshold) ==
    /\ Exceeds(calculateOverlap(current.bbox, det.bbox), overlapThreshold)
    /\ current.label = det.label

\* a reduce that keeps its initial value
ReduceBestFirst(best, overlapping, k) == best

\* overlapping.reduce((best, det) => det.confidence > best.confidence ? det : best)
RECURSIVE ReduceBest(_, _, _)
ReduceBest(best, overlapping, k) ==
    IF k > Len(overlapping) THEN best
    ELSE ReduceBest(IF overlapping[k].confidence > best.confidence
                    THEN overlapping[k] ELSE best,
                    overlapping, k + 1)

\* elements of s at the indices of the set idx, in increasing index order
RECURSIVE Pick(_, _, _)
Pick(s, idx, k) ==
    IF k > Len(s) THEN <<>>
    ELSE (IF k \in idx THEN <<s[k]>> ELSE <<>>) \o Pick(s, idx, k + 1)

\* a merger that emits every member of a cluster and marks none of them used
RECURSIVE MergeLoopKeepAll(_, _, _, _, _)
MergeLoopKeepAll(dets, overlapThreshold, i, used, merged) ==
    IF i > Len(dets) THEN merged
    ELSE LET current == dets[i]
             js == {j \in (i + 1)..Len(dets) :
                      /\ Overlaps(current, dets[j], overlapThreshold)}
         IN MergeLoopKeepAll(dets, overlapThreshold, i + 1, used,
                             merged \o <<current>> \o Pick(dets, js, 1))

\* the outer loop of mergeOverlappingDetections from index i on
RECURSIVE MergeLoop(_, _, _, _, _)
MergeLoop(dets, overlapThreshold, i, used, merged) ==
    IF i > Len(dets) THEN merged
    ELSE IF i \in used THEN MergeLoop(dets, overlapThreshold, i + 1, used, merged)
    ELSE LET current == dets[i]
             js == {j \in (i + 1)..Len(dets) :
                      /\ j \notin used
                      /\ Overlaps(current, dets[j], overlapThreshold)}
             overlapping == <<current>> \o Pick(dets, js, 1)
             bestDetection == ReduceBest(overlapping[1], overlapping, 2)
         IN MergeLoop(dets, overlapThreshold, i + 1, used \cup {i} \cup js,
                      Append(merged, IF Len(overlapping) > 1
                                     THEN bestDetection ELSE current))

\* a merger that raises the confidence of what it returns by 0.02, capped
\* at 0.98
mergeOverlappingDetectionsBoosted(dets, overlapThreshold) ==
    LET merged == IF Len(dets) <= 1 THEN dets
                  ELSE MergeLoop(dets, overlapThreshold, 1, {}, <<>>)
    IN [i \in 1..Len(merged) |->
           [merged[i] EXCEPT !.confidence = Min(98000, merged[i].confidence + 2000)]]

mergeOverlappingDetections(dets, overlapThreshold) ==
    IF Len(dets) <= 1 THEN dets
    ELSE MergeLoop(dets, overlapThreshold, 1, {}, <<>>)

\* the `if (helmetAnalysis.isHelmet && ..) detections.push(..)` of detectHelmets
HelmetHit(helmetAnalysis, refinedBounds, w0, h0) ==
    IF helmetAnalysis.isHelmet /\ helmetAnalysis.confidence > 70000
    THEN <<[label |-> "helmet",
            confidence |-> helmetAnalysis.confidence,
            color |-> helmetAnalysis.color,
            bbox |-> NormBox(refinedBounds.x, refinedBounds.y,
                             refinedBounds.width, refinedBounds.height, w0, h0)]>>
    ELSE <<>>

detectHelmets(imageData, w0, h0) ==
    LET searchHeight == FloorMul(h0, 5, 10)
        blockSize == 32
        stride == 16
        Body(x, y) ==
            HelmetHit(analyzeHelmetRegion(
                          extractImageRegion(imageData, w0, h0, x, y, blockSize, blockSize),
                          blockSize),
                      refineHelmetBounds(imageData, w0, h0, x, y, blockSize), w0, h0)
    IN mergeOverlappingDetections(
           ScanLoop(Steps(0, searchHeight, stride), Steps(0, w0 - blockSize, stride), Body),
           <<3, 10>>)

\* the `if (vestAnalysis.isVest && ..) detections.push(..)` of detectVests
VestHit(vestAnalysis, refinedBounds, w0, h0) ==
    IF vestAnalysis.isVest /\ vestAnalysis.confidence > 65000
    THEN <<[label |-> "vest",
            confidence |-> vestAnalysis.confidence,
            color |-> vestAnalysis.color,
            bbox |-> NormBox(refinedBounds.x, refinedBounds.y,
                             refinedBounds.width, refinedBounds.height, w0, h0)]>>
    ELSE <<>>

detectVests(imageData, w0, h0) ==
    LET searchStartY == FloorMul(h0, 2, 10)
        searchHeight == FloorMul(h0, 6, 10)
        blockSize == 48
        stride == 24
        Body(x, y) ==
            VestHit(analyzeVestRegion(
                        extractImageRegion(imageData, w0, h0, x, y, blockSize, blockSize),
                        blockSize),
                    refineVestBounds(imageData, w0, h0, x, y, blockSize), w0, h0)
    IN mergeOverlappingDetections(
           ScanLoop(Steps(searchStartY, searchStartY + searchHeight, stride),
                    Steps(0, w0 - blockSize, stride), Body),
           <<4, 10>>)

\* FullBodyHit without the test of the suit colour
FullBodyHitAnyColour(uniformity, x, y, largeBlockSize, w0, h0) ==
    IF Exceeds(uniformity.score, <<7, 10>>)
    THEN <<[x |-> x, y |-> y, width |-> largeBlockSize, height |-> largeBlockSize,
            confidence |-> uniformity.score,
            hasHeadCovering |-> 10 * y < 3 * h0,
            hasBodyCovering |-> 10 * y > 2 * h0,
            headConfidence |-> IF 10 * y < 3 * h0 THEN 80000 ELSE 30000,
            bodyConfidence |-> IF 10 * y > 2 * h0 THEN 80000 ELSE 30000,
            headBbox |-> NormBox(10 * x, 10 * y, 10 * largeBlockSize,
                                 Tenths(largeBlockSize, 30), w0, h0),
            bodyBbox |-> NormBox(10 * x, 10 * y + Tenths(largeBlockSize, 30),
                                 10 * largeBlockSize,
                                 Tenths(largeBlockSize, 70), w0, h0)]>>
    ELSE <<>>

\* the `if (uniformity.score > 0.7) { .. regions.push(..) }` of findFullBodyPPE
FullBodyHit(uniformity, x, y, largeBlockSize, w0, h0) ==
    LET isDarkBlue == isColorInRange(uniformity.color, PPE_COLORS.helmet.darkBlue)
        isLightBlue == /\ uniformity.color.b > uniformity.color.r
                       /\ uniformity.color.b > uniformity.color.g
                       /\ uniformity.color.b > 100
    IN IF Exceeds(uniformity.score, <<7, 10>>) /\ (isDarkBlue \/ isLightBlue)
       THEN <<[x |-> x, y |-> y, width |-> largeBlockSize, height |-> largeBlockSize,
               confidence |-> uniformity.score,
               hasHeadCovering |-> 10 * y < 3 * h0,
               hasBodyCovering |-> 10 * y > 2 * h0,
               headConfidence |-> IF 10 * y < 3 * h0 THEN 80000 ELSE 30000,
               bodyConfidence |-> IF 10 * y > 2 * h0 THEN 80000 ELSE 30000,
               headBbox |-> NormBox(10 * x, 10 * y, 10 * largeBlockSize,
                                    Tenths(largeBlockSize, 30), w0, h0),
               bodyBbox |-> NormBox(10 * x, 10 * y + Tenths(largeBlockSize, 30),
                                    10 * largeBlockSize,
                                    Tenths(largeBlockSize, 70), w0, h0)]>>
       ELSE <<>>

findFullBodyPPE(data, w0, h0) ==
    LET largeBlockSize == 96
        stride == 48
        Body(x, y) ==
            FullBodyHit(analyzeUniformity(
                            extractImageRegion(data, w0, h0, x, y,
                                               largeBlockSize, largeBlockSize)),
                        x, y, largeBlockSize, w0, h0)
    IN ScanLoop(Steps(0, h0 - largeBlockSize, stride),
                Steps(0, w0 - largeBlockSize, stride), Body)

\* the loop of detectFullPPE over the regions found
FullPPEDetections(fullBodyRegions) ==
    LET Pair(region) ==
            IF /\ Exceeds(region.confidence, <<7, 10>>)
               /\ region.hasHeadCovering /\ region.hasBodyCovering
            THEN <<[label |-> "helmet", confidence |-> region.headConfidence,
                    color |-> "none", bbox |-> region.headBbox],
                   [label |-> "vest", confidence |-> region.bodyConfidence,
                    color |-> "none", bbox |-> region.bodyBbox]>>
            ELSE <<>>
    IN Concat([i \in 1..Len(fullBodyRegions) |-> Pair(fullBodyRegions[i])])

detectFullPPE(imageData, w0, h0) ==
    FullPPEDetections(findFullBodyPPE(imageData, w0, h0))

(***************************************************************************)
(* filterAndMergeDetections, generateDetectionHash                         *)
(***************************************************************************)
\* the keys of byLabel, in insertion order
RECURSIVE LabelOrder(_, _)
LabelOrder(dets, seen) ==
    IF dets = <<>> THEN <<>>
    ELSE IF Head(dets).label \in seen THEN LabelOrder(Tail(dets), seen)
    ELSE <<Head(dets).label>> \o LabelOrder(Tail(dets), seen \cup {Head(dets).label})

\* an insertion that puts d before the elements of its confidence: the sort
\* it gives is not stable
RECURSIVE InsertDescBeforeTies(_, _)
InsertDescBeforeTies(sorted, d) ==
    IF sorted = <<>> THEN <<d>>
    ELSE IF Head(sorted).confidence > d.confidence
         THEN <<Head(sorted)>> \o InsertDescBeforeTies(Tail(sorted), d)
         ELSE <<d>> \o sorted

\* Array.prototype.sort((a, b) => b.confidence - a.confidence): stable
RECURSIVE InsertDesc(_, _)
InsertDesc(sorted, d) ==
    IF sorted = <<>> THEN <<d>>
    ELSE IF Head(sorted).confidence >= d.confidence
         THEN <<Head(sorted)>> \o InsertDesc(Tail(sorted), d)
         ELSE <<d>> \o sorted

RECURSIVE SortDesc(_, _)
SortDesc(dets, k) ==
    IF k = 0 THEN <<>> ELSE InsertDesc(SortDesc(dets, k - 1), dets[k])

\* an assembler whose filter keeps confidence 0.6
filterAndMergeDetectionsInclusive(dets) ==
    LET filtered == SelectSeq(dets, LAMBDA d : d.confidence >= 60000)
        labels == LabelOrder(filtered, {})
        byLabel(label) == SelectSeq(filtered, LAMBDA d : d.label = label)
        merged == Concat([i \in 1..Len(labels) |->
                            mergeOverlappingDetections(byLabel(labels[i]), <<3, 10>>)])
    IN SortDesc(merged, Len(merged))

filterAndMergeDetections(dets) ==
    LET filtered == SelectSeq(dets, LAMBDA d : d.confidence > 60000)
        labels == LabelOrder(filtered, {})
        byLabel(label) == SelectSeq(filtered, LAMBDA d : d.label = label)
        merged == Concat([i \in 1..Len(labels) |->
                            mergeOverlappingDetections(byLabel(labels[i]), <<3, 10>>)])
    IN SortDesc(merged, Len(merged))

\* a canonical form of label, confidence, x and y only, two decimals each
HashDataXY(dets) ==
    [i \in 1..Len(dets) |->
        [label |-> dets[i].label,
         confidence |-> toFixed(dets[i].confidence, 100000, 2),
         bbox |-> [x |-> toFixed(dets[i].bbox.x, dets[i].bbox.sx, 2),
                   y |-> toFixed(dets[i].bbox.y, dets[i].bbox.sy, 2)]]]

\* the array hashData that is serialised and digested
HashData(dets) ==
    [i \in 1..Len(dets) |->
        [label |-> dets[i].label,
         confidence |-> toFixed(dets[i].confidence, 100000, 2),
         bbox |-> [x |-> toFixed(dets[i].bbox.x, dets[i].bbox.sx, 3),
                   y |-> toFixed(dets[i].bbox.y, dets[i].bbox.sy, 3),
                   width |-> toFixed(dets[i].bbox.width, dets[i].bbox.sx, 3),
                   height |-> toFixed(dets[i].bbox.height, dets[i].bbox.sy, 3)]]]

\* crypto.createHash('md5').update(JSON.stringify(hashData)).digest('hex'):
\* the digest of a serialisation is kept as the serialised value itself
generateDetectionHash(dets) == [md5 |-> HashData(dets)]

\* detectPPE(imagePath) for a file of content `file`: the detections of
\* analyzeImageForPPE, [] when the file cannot be decoded
detectPPE(file) ==
    IF file.decodable # "ok" THEN <<>>
    ELSE filterAndMergeDetections(
             detectPerson(file, file.width, file.height)
             \o detectHelmets(file, file.width, file.height)
             \o detectVests(file, file.width, file.height)
             \o detectFullPPE(file, file.width, file.height))

(***************************************************************************)
(* detectPPE: analyzeImageForPPE -> getImageInfo, detectPPEObjects         *)
(***************************************************************************)
Sizes == {1, 40, 100, 200}

RowBandChoices == {<<1, 1>>, <<7, 1>>, <<40, 40>>}
ColBandChoices == {<<40, 40>>}

UniformTile(c) == [cell \in Cells |-> c]
RowTile(c0, c1) == [cell \in Cells |-> IF cell[1] = 0 THEN c0 ELSE c1]
ColTile(c0, c1) == [cell \in Cells |-> IF cell[2] = 0 THEN c0 ELSE c1]

Patterns ==
    {[rowBands |-> <<1, 1>>, colBands |-> <<1, 1>>, tile |-> UniformTile(c)] :
        c \in ColourNames}
    \cup {[rowBands |-> bb, colBands |-> <<1, 1>>, tile |-> RowTile(p[1], p[2])] :
        bb \in RowBandChoices, p \in {q \in ColourNames \X ColourNames : q[1] # q[2]}}
    \cup {[rowBands |-> <<1, 1>>, colBands |-> bb, tile |-> ColTile(p[1], p[2])] :
        bb \in ColBandChoices, p \in {q \in ColourNames \X ColourNames : q[1] # q[2]}}

\* file.originalname as <<stem, extension>>
Names == {<<"helmet", ".jpg">>, <<"vest_helmet", ".png">>, <<"site", ".jpg">>}

\* stem.toLowerCase().includes(word)
Includes(stem, word) ==
    \/ stem = word
    \/ stem = "vest_helmet" /\ word \in {"vest", "helmet"}

\* decodable: "ok"; "noMetadata" (sharp cannot read the file); "noPixels"
\* (sharp reads the header, loadImage cannot decode the file)
Images ==
    {[width |-> w, height |-> h, rowBands |-> p.rowBands, colBands |-> p.colBands,
      tile |-> p.tile, decodable |-> "ok", originalname |-> <<"site", ".jpg">>] :
        w \in Sizes, h \in Sizes, p \in Patterns}
    \cup
    {[width |-> 100, height |-> 100, rowBands |-> <<1, 1>>, colBands |-> <<1, 1>>,
      tile |-> UniformTile("black"), decodable |-> d, originalname |-> n] :
        d \in {"noMetadata", "noPixels"}, n \in Names}

NoDetections == <<>>

\* getImageInfo awaited outside any try: its rejection rejects detectPPE
GetImageInfoUncaught ==
    /\ dpc = "getImageInfo"
    /\ IF image.decodable = "noMetadata"
       THEN /\ threw' = TRUE
            /\ dpc' = "done"
            /\ UNCHANGED <<width, height>>
       ELSE /\ width' = image.width
            /\ height' = image.height
            /\ dpc' = "loadImage"
            /\ UNCHANGED threw
    /\ UNCHANGED <<image, detections, result>>

\* analyzeImageForPPE: `await getImageInfo(imagePath)`; a rejection lands in
\* its catch, which returns detections: []
GetImageInfo ==
    /\ dpc = "getImageInfo"
    /\ IF image.decodable = "noMetadata"
       THEN /\ result' = NoDetections
            /\ dpc' = "done"
            /\ UNCHANGED <<width, height>>
       ELSE /\ width' = image.width
            /\ height' = image.height
            /\ dpc' = "loadImage"
            /\ UNCHANGED result
    /\ UNCHANGED <<image, detections, threw>>

\* detectPPEObjects: `await loadImage(imagePath)`; a rejection lands in its
\* catch, which returns []
LoadImage ==
    /\ dpc = "loadImage"
    /\ IF image.decodable = "noPixels"
       THEN /\ result' = NoDetections
            /\ dpc' = "done"
       ELSE /\ dpc' = "detectPerson"
            /\ UNCHANGED result
    /\ UNCHANGED <<image, width, height, detections, threw>>

DetectPerson ==
    /\ dpc = "detectPerson"
    /\ detections' = detections \o detectPerson(image, width, height)
    /\ dpc' = "detectHelmets"
    /\ UNCHANGED <<image, width, height, result, threw>>

DetectHelmets ==
    /\ dpc = "detectHelmets"
    /\ detections' = detections \o detectHelmets(image, width, height)
    /\ dpc' = "detectVests"
    /\ UNCHANGED <<image, width, height, result, threw>>

DetectVests ==
    /\ dpc = "detectVests"
    /\ detections' = detections \o detectVests(image, width, height)
    /\ dpc' = "detectFullPPE"
    /\ UNCHANGED <<image, width, height, result, threw>>

\* the last await of detectPPEObjects, then `return filterAndMergeDetections(detections)`
DetectFullPPE ==
    /\ dpc = "detectFullPPE"
    /\ LET all == detections \o detectFullPPE(image, width, height)
       IN /\ detections' = all
          /\ result' = filterAndMergeDetections(all)
    /\ dpc' = "done"
    /\ UNCHANGED <<image, width, height, threw>>

IdleApi ==
    /\ imagesTable = <<>> /\ detectionsTable = <<>> /\ uploads = {}
    /\ reqs = <<>> /\ calls = <<>>
IdleMerge == cands = <<>> /\ thr = <<3, 10>> /\ mergedOut = <<>> /\ mpc = "idle"
IdleHash == listA = <<>> /\ listB = <<>> /\ hashA = <<>> /\ hashB = <<>> /\ hpc = "idle"
IdleImage == CHOOSE i \in Images : i.decodable = "noMetadata"

IdleDetect ==
    /\ image = IdleImage
    /\ dpc = "idle" /\ width = 0 /\ height = 0
    /\ detections = <<>> /\ result = <<>> /\ threw = FALSE

DetectInit ==
    /\ image \in Images
    /\ dpc = "getImageInfo"
    /\ width = 0
    /\ height = 0
    /\ detections = <<>>
    /\ result = <<>>
    /\ threw = FALSE
    /\ IdleMerge
    /\ IdleHash
    /\ IdleApi
    /\ IdleAux

DetectNext ==
    /\ \/ GetImageInfo
       \/ LoadImage
       \/ DetectPerson
       \/ DetectHelmets
       \/ DetectVests
       \/ DetectFullPPE
    /\ UNCHANGED mergeVars
    /\ UNCHANGED hashVars
    /\ UNCHANGED apiVars
    /\ UNCHANGED auxVars

SpecDetect == DetectInit /\ [][DetectNext]_vars

Done == dpc = "done"

(***************************************************************************)
(* The merger and the assembler on candidate lists                         *)
(***************************************************************************)
MaxCands == 3

CandLabels == {"helmet", "vest"}
CandConfidences == {55000, 60000, 75000, 90000}

\* boxes A, B, D over sx = 32, sy = 16 (every coordinate a dyadic fraction,
\* so the doubles of calculateOverlap are exact): IoU(A, B) = 96/320 = 0.3,
\* IoU(A, D) = 112/304 = 7/19, IoU(B, D) = 192/224 = 6/7
CandBoxes ==
    {[x |-> 0, y |-> 0, width |-> 13, height |-> 16, sx |-> 32, sy |-> 16],
     [x |-> 7, y |-> 0, width |-> 13, height |-> 16, sx |-> 32, sy |-> 16],
     [x |-> 6, y |-> 0, width |-> 13, height |-> 16, sx |-> 32, sy |-> 16]}

Candidates ==
    {[label |-> l, confidence |-> c, color |-> "none", bbox |-> b] :
        l \in CandLabels, c \in CandConfidences, b \in CandBoxes}

Thresholds == {<<3, 10>>, <<4, 10>>}

SeqsUpTo(S, n) == UNION {[1..k -> S] : k \in 0..n}

MergeInit ==
    /\ cands \in SeqsUpTo(Candidates, MaxCands)
    /\ thr \in Thresholds
    /\ mergedOut = <<>>
    /\ mpc = "in"
    /\ IdleDetect
    /\ IdleHash
    /\ IdleApi
    /\ IdleAux

\* a call mergeOverlappingDetections(cands, thr)
MergeCall ==
    /\ mpc = "in"
    /\ mergedOut' = mergeOverlappingDetections(cands, thr)
    /\ mpc' = "merged"
    /\ UNCHANGED <<cands, thr>>

\* a call filterAndMergeDetections(cands)
AssembleCall ==
    /\ mpc = "in"
    /\ mergedOut' = filterAndMergeDetections(cands)
    /\ mpc' = "assembled"
    /\ UNCHANGED <<cands, thr>>

MergeNext ==
    /\ \/ MergeCall
       \/ AssembleCall
    /\ UNCHANGED detectVars
    /\ UNCHANGED hashVars
    /\ UNCHANGED apiVars
    /\ UNCHANGED auxVars

SpecMerge == MergeInit /\ [][MergeNext]_vars

(***************************************************************************)
(* generateDetectionHash on pairs of lists                                 *)
(***************************************************************************)
MaxHashLen == 2

\* a detection over sx = sy = 10000 (x = 1000 is 0.1000)
BaseDet ==
    [label |-> "helmet", confidence |-> 75000, color |-> "yellow",
     bbox |-> [x |-> 1000, y |-> 2000, width |-> 3000, height |-> 4000,
               sx |-> 10000, sy |-> 10000]]

\* BaseDet and its variants in one field: a value that rounds like the
\* base value and one that rounds differently
HashDets ==
    {BaseDet, [BaseDet EXCEPT !.label = "vest"], [BaseDet EXCEPT !.color = "none"]}
    \cup {[BaseDet EXCEPT !.confidence = c] : c \in {75400, 76000}}
    \cup {[BaseDet EXCEPT !.bbox.x = 1010], [BaseDet EXCEPT !.bbox.y = 2004],
          [BaseDet EXCEPT !.bbox.width = 3010], [BaseDet EXCEPT !.bbox.height = 4010]}

HashInit ==
    /\ listA \in SeqsUpTo(HashDets, MaxHashLen)
    /\ listB \in SeqsUpTo(HashDets, MaxHashLen)
    /\ hashA = <<>>
    /\ hashB = <<>>
    /\ hpc = "in"
    /\ IdleDetect
    /\ IdleMerge
    /\ IdleApi
    /\ IdleAux

HashBoth ==
    /\ hpc = "in"
    /\ hashA' = generateDetectionHash(listA)
    /\ hashB' = generateDetectionHash(listB)
    /\ hpc' = "out"
    /\ UNCHANGED <<listA, listB>>

HashNext ==
    /\ HashBoth
    /\ UNCHANGED detectVars
    /\ UNCHANGED mergeVars
    /\ UNCHANGED apiVars
    /\ UNCHANGED auxVars

SpecHash == HashInit /\ [][HashNext]_vars

(***************************************************************************)
(* POST /api/images (routes/images.js) on the tables of database.js        *)
(*                                                                         *)
(* A handler runs without interruption between two awaits; an action is    *)
(* the completion of the awaited operation together with the code up to    *)
(* the next await.  Every statement sent to the database is answered with  *)
(* its result or with an error (`if (err) reject(err)`).                   *)
(***************************************************************************)
MaxRequests == 2

Requests == 1..MaxRequests

\* req.headers['idempotency-key']: undefined without the header, else its value
NoKey == "undefined"
HeaderValues == {NoKey, "", "k1", "k2"}

\* `if (idempotencyKey)`
Truthy(value) == value # NoKey /\ value # ""

FileOf(w, h, c) ==
    [width |-> w, height |-> h, rowBands |-> <<1, 1>>, colBands |-> <<1, 1>>,
     tile |-> UniformTile(c), decodable |-> "ok", originalname |-> <<"site", ".jpg">>]

\* the uploaded files: detectPPE finds nothing in the first and two helmets
\* in the second
Files == {FileOf(100, 100, "black"), FileOf(100, 40, "yellow")}

\* detectPPE of each file
Detected == [f \in Files |-> detectPPE(f)]

\* uuidv4(): a value no other call yields, kept as the request and the call site
uuidv4(r, site) == <<r, site>>

\* multer's filename callback: `${uuidv4()}${path.extname(file.originalname)}`
multerFilename(r, file) == [uuid |-> uuidv4(r, "file"), ext |-> file.originalname[2]]

\* multer's destination: the file lands in the upload directory
multerPath(filename) == <<"uploads", filename>>

\* md5 of the bytes of the file (the client's file name is not part of them);
\* the digest is kept as the digested value
generateFileHash(file) ==
    [md5 |-> <<file.width, file.height, file.rowBands, file.colBands, file.tile,
               file.decodable>>]

existsSync(disk, path) == \E u \in disk : u.path = path
unlinkSync(disk, path) == {u \in disk : u.path # path}

\* detectPPE(filepath): of the file at that path; sharp rejects a missing file
detectPPEAt(disk, path) ==
    IF existsSync(disk, path)
    THEN Detected[(CHOOSE u \in disk : u.path = path).content]
    ELSE <<>>

\* db.get(sql, ..): the first row that matches, as a list of at most one row
FirstRow(rows) == IF rows = <<>> THEN <<>> ELSE <<rows[1]>>

\* SELECT * FROM images WHERE idempotency_key = ?
SelectByKey(rows, key) == SelectSeq(rows, LAMBDA row : row.idempotency_key = key)

\* SELECT * FROM images WHERE file_hash = ?
SelectByFileHash(rows, fileHash) == SelectSeq(rows, LAMBDA row : row.file_hash = fileHash)

\* SELECT * FROM detections WHERE image_id = ?
SelectDetections(rows, imageId) == SelectSeq(rows, LAMBDA d : d.image_id = imageId)

\* a row of images (upload_date, the time of the insert, is left out)
ImageRow(q) ==
    [id |-> q.imageId, filename |-> q.filename, filepath |-> q.filepath, processed |-> 1,
     detections_hash |-> q.detectionsHash, file_hash |-> q.fileHash,
     idempotency_key |-> q.key]

\* a row of detections; id is AUTOINCREMENT, a REAL column holds num/den as <<num, den>>
DetectionRow(id, imageId, d) ==
    [id |-> id, image_id |-> imageId, label |-> d.label, confidence |-> d.confidence,
     bbox_x |-> <<d.bbox.x, d.bbox.sx>>, bbox_y |-> <<d.bbox.y, d.bbox.sy>>,
     bbox_width |-> <<d.bbox.width, d.bbox.sx>>,
     bbox_height |-> <<d.bbox.height, d.bbox.sy>>]

\* existingDetections.map(d => ..) of the two 200 responses
MapRows(rows) ==
    [i \in 1..Len(rows) |->
        [label |-> rows[i].label,
         confidence |-> toFixed(rows[i].confidence, 100000, 2),
         bbox |-> [x |-> rows[i].bbox_x, y |-> rows[i].bbox_y,
                   width |-> rows[i].bbox_width, height |-> rows[i].bbox_height]]]

\* detections.map(d => ..) of the 201 response
MapDetections(dets) ==
    [i \in 1..Len(dets) |->
        [label |-> dets[i].label,
         confidence |-> toFixed(dets[i].confidence, 100000, 2),
         bbox |-> [x |-> <<dets[i].bbox.x, dets[i].bbox.sx>>,
                   y |-> <<dets[i].bbox.y, dets[i].bbox.sy>>,
                   width |-> <<dets[i].bbox.width, dets[i].bbox.sx>>,
                   height |-> <<dets[i].bbox.height, dets[i].bbox.sy>>]]]

Respond(status, row, dets, message) ==
    [status |-> status, id |-> row.id, filename |-> row.filename,
     detections_hash |-> row.detections_hash, detections |-> dets, message |-> message]

\* a request: its position, the locals of the handler, and a record of what
\* it has done (seen: the table images as its first SELECT found it)
NewRequest ==
    [pc |-> "new", key |-> NoKey, file |-> <<>>, filename |-> <<>>, filepath |-> <<>>,
     fileHash |-> [md5 |-> <<>>], existing |-> <<>>, imageId |-> <<>>,
     detections |-> <<>>, detectionsHash |-> [md5 |-> <<>>], next |-> 0,
     response |-> [status |-> 0],
     looked |-> FALSE, seen |-> <<>>, ranDetection |-> FALSE, inserts |-> 0, dbErrors |-> 0]

\* the catch of the handler: 500 PROCESSING_ERROR
Catch(r) ==
    reqs' = [reqs EXCEPT ![r].pc = "done",
                         ![r].dbErrors = @ + 1,
                         ![r].response = [status |-> 500, code |-> "PROCESSING_ERROR"]]

\* requests are numbered in the order of their arrival.
\* upload.single('image') stores the file; the handler runs up to its first
\* db.get: 400 without a file, else fileHash, idempotencyKey and the SELECT by
\* key, or the SELECT by file hash when no key is provided
Receive(r) ==
    /\ reqs[r].pc = "new"
    /\ \A earlier \in 1..(r - 1) : reqs[earlier].pc # "new"
    /\ \E key \in HeaderValues, upload \in {<<>>} \cup {<<f>> : f \in Files} :
          IF upload = <<>>
          THEN /\ reqs' = [reqs EXCEPT ![r].pc = "done",
                                       ![r].key = key,
                                       ![r].response = [status |-> 400,
                                                        code |-> "FIELD_REQUIRED"]]
               /\ UNCHANGED uploads
          ELSE LET filename == multerFilename(r, upload[1])
                   filepath == multerPath(filename)
               IN /\ uploads' = uploads \cup {[path |-> filepath, content |-> upload[1]]}
                  /\ reqs' = [reqs EXCEPT ![r].pc = IF Truthy(key) THEN "keyGet" ELSE "hashGet",
                                          ![r].key = key,
                                          ![r].file = upload,
                                          ![r].filename = filename,
                                          ![r].filepath = filepath,
                                          ![r].fileHash = generateFileHash(upload[1])]
    /\ UNCHANGED <<imagesTable, detectionsTable>>

\* a handler whose key matches a stored row only when the file hash matches too
KeyGetSameFileOnly(r) ==
    /\ reqs[r].pc = "keyGet"
    /\ \E err \in BOOLEAN :
          IF err
          THEN Catch(r) /\ UNCHANGED uploads
          ELSE LET q == reqs[r]
                   existingRequest ==
                       FirstRow(SelectByFileHash(SelectByKey(imagesTable, q.key), q.fileHash))
               IN IF existingRequest # <<>>
                  THEN /\ uploads' = unlinkSync(uploads, q.filepath)
                       /\ reqs' = [reqs EXCEPT ![r].pc = "keyAll",
                                               ![r].existing = existingRequest,
                                               ![r].looked = TRUE,
                                               ![r].seen = imagesTable]
                  ELSE /\ reqs' = [reqs EXCEPT ![r].pc = "hashGet",
                                               ![r].looked = TRUE,
                                               ![r].seen = imagesTable]
                       /\ UNCHANGED uploads
    /\ UNCHANGED <<imagesTable, detectionsTable>>

\* the SELECT by idempotency key is answered: on a row, unlink the uploaded
\* file and SELECT the row's detections; else SELECT by file hash
KeyGet(r) ==
    /\ reqs[r].pc = "keyGet"
    /\ \E err \in BOOLEAN :
          IF err
          THEN Catch(r) /\ UNCHANGED uploads
          ELSE LET q == reqs[r]
                   existingRequest == FirstRow(SelectByKey(imagesTable, q.key))
               IN IF existingRequest # <<>>
                  THEN /\ uploads' = unlinkSync(uploads, q.filepath)
                       /\ reqs' = [reqs EXCEPT ![r].pc = "keyAll",
                                               ![r].existing = existingRequest,
                                               ![r].looked = TRUE,
                                               ![r].seen = imagesTable]
                  ELSE /\ reqs' = [reqs EXCEPT ![r].pc = "hashGet",
                                               ![r].looked = TRUE,
                                               ![r].seen = imagesTable]
                       /\ UNCHANGED uploads
    /\ UNCHANGED <<imagesTable, detectionsTable>>

\* the SELECT of the detections of existingRequest is answered: 200
KeyAll(r) ==
    /\ reqs[r].pc = "keyAll"
    /\ \E err \in BOOLEAN :
          IF err
          THEN Catch(r)
          ELSE LET existingRequest == reqs[r].existing[1]
                   existingDetections == SelectDetections(detectionsTable, existingRequest.id)
               IN reqs' = [reqs EXCEPT ![r].pc = "done",
                                       ![r].response =
                                           Respond(200, existingRequest,
                                                   MapRows(existingDetections),
                                                   "Idempotent request - returning existing results")]
    /\ UNCHANGED <<imagesTable, detectionsTable, uploads>>

\* the SELECT by file hash is answered: on a row, unlink the uploaded file
\* and SELECT the row's detections; else imageId = uuidv4() and detectPPE
HashGet(r) ==
    /\ reqs[r].pc = "hashGet"
    /\ \E err \in BOOLEAN :
          IF err
          THEN Catch(r) /\ UNCHANGED uploads
          ELSE LET q == reqs[r]
                   existingImage == FirstRow(SelectByFileHash(imagesTable, q.fileHash))
                   seenFirst == IF q.looked THEN q.seen ELSE imagesTable
               IN IF existingImage # <<>>
                  THEN /\ uploads' = unlinkSync(uploads, q.filepath)
                       /\ reqs' = [reqs EXCEPT ![r].pc = "hashAll",
                                               ![r].existing = existingImage,
                                               ![r].looked = TRUE,
                                               ![r].seen = seenFirst]
                  ELSE /\ reqs' = [reqs EXCEPT ![r].pc = "detect",
                                               ![r].imageId = uuidv4(r, "image"),
                                               ![r].looked = TRUE,
                                               ![r].seen = seenFirst]
                       /\ UNCHANGED uploads
    /\ UNCHANGED <<imagesTable, detectionsTable>>

\* the SELECT of the detections of existingImage is answered: 200
HashAll(r) ==
    /\ reqs[r].pc = "hashAll"
    /\ \E err \in BOOLEAN :
          IF err
          THEN Catch(r)
          ELSE LET existingImage == reqs[r].existing[1]
                   existingDetections == SelectDetections(detectionsTable, existingImage.id)
               IN reqs' = [reqs EXCEPT ![r].pc = "done",
                                       ![r].response =
                                           Respond(200, existingImage,
                                                   MapRows(existingDetections),
                                                   "Duplicate file detected, returning existing results")]
    /\ UNCHANGED <<imagesTable, detectionsTable, uploads>>

\* detectPPE resolves (it never rejects); generateDetectionHash; INSERT INTO images
Detect(r) ==
    /\ reqs[r].pc = "detect"
    /\ LET dets == detectPPEAt(uploads, reqs[r].filepath)
       IN reqs' = [reqs EXCEPT ![r].pc = "insertImage",
                               ![r].detections = dets,
                               ![r].detectionsHash = generateDetectionHash(dets),
                               ![r].ranDetection = TRUE]
    /\ UNCHANGED <<imagesTable, detectionsTable, uploads>>

\* the 201 response
Created(q) ==
    Respond(201, ImageRow(q), MapDetections(q.detections),
            "Image uploaded and processed successfully")

\* the INSERT INTO images is answered; db.prepare; the first insertDetection.run,
\* or with no detection finalize and 201
InsertImage(r) ==
    /\ reqs[r].pc = "insertImage"
    /\ \E err \in BOOLEAN :
          IF err
          THEN Catch(r) /\ UNCHANGED imagesTable
          ELSE LET q == reqs[r]
               IN /\ imagesTable' = Append(imagesTable, ImageRow(q))
                  /\ IF q.detections = <<>>
                     THEN reqs' = [reqs EXCEPT ![r].pc = "done",
                                               ![r].inserts = @ + 1,
                                               ![r].response = Created(q)]
                     ELSE reqs' = [reqs EXCEPT ![r].pc = "insertDetection",
                                               ![r].inserts = @ + 1,
                                               ![r].next = 1]
    /\ UNCHANGED <<detectionsTable, uploads>>

\* one insertDetection.run of the for loop is answered; the next one, or after
\* the last finalize and 201
InsertDetection(r) ==
    /\ reqs[r].pc = "insertDetection"
    /\ \E err \in BOOLEAN :
          IF err
          THEN Catch(r) /\ UNCHANGED detectionsTable
          ELSE LET q == reqs[r]
               IN /\ detectionsTable' =
                         Append(detectionsTable,
                                DetectionRow(Len(detectionsTable) + 1, q.imageId,
                                             q.detections[q.next]))
                  /\ IF q.next = Len(q.detections)
                     THEN reqs' = [reqs EXCEPT ![r].pc = "done",
                                               ![r].inserts = @ + 1,
                                               ![r].response = Created(q)]
                     ELSE reqs' = [reqs EXCEPT ![r].inserts = @ + 1,
                                               ![r].next = @ + 1]
    /\ UNCHANGED <<imagesTable, uploads>>

ApiInit ==
    /\ imagesTable = <<>>
    /\ detectionsTable = <<>>
    /\ uploads = {}
    /\ reqs = [r \in Requests |-> NewRequest]
    /\ calls = <<>>
    /\ IdleDetect
    /\ IdleMerge
    /\ IdleHash
    /\ IdleAux

ApiNext ==
    /\ \E r \in Requests :
          \/ Receive(r)
          \/ KeyGet(r)
          \/ KeyAll(r)
          \/ HashGet(r)
          \/ HashAll(r)
          \/ Detect(r)
          \/ InsertImage(r)
          \/ InsertDetection(r)
    /\ UNCHANGED calls
    /\ UNCHANGED detectVars
    /\ UNCHANGED mergeVars
    /\ UNCHANGED hashVars
    /\ UNCHANGED auxVars

SpecApi == ApiInit /\ [][ApiNext]_vars

(***************************************************************************)
(* DELETE /api/images/:id and GET /api/images/:id (routes/images.js)       *)
(*                                                                         *)
(* A request is received when its first SELECT is answered: until then the *)
(* handler has done nothing but send it.                                   *)
(***************************************************************************)
MaxCalls == 2

Calls == 1..MaxCalls

\* req.params.id: the ids the uploads are given
CallIds == {uuidv4(r, "image") : r \in Requests}

\* SQLite enforces FOREIGN KEY .. ON DELETE CASCADE only on a connection that
\* has run PRAGMA foreign_keys = ON; database.js opens the database without it
foreignKeys == FALSE

\* SELECT .. FROM images WHERE id = ?
SelectById(rows, id) == SelectSeq(rows, LAMBDA row : row.id = id)

\* DELETE FROM images WHERE id = ?
DeleteById(rows, id) == SelectSeq(rows, LAMBDA row : row.id # id)

\* ON DELETE CASCADE of detections.image_id
Cascade(rows, id) ==
    IF foreignKeys THEN SelectSeq(rows, LAMBDA d : d.image_id # id) ELSE rows

\* detections.map(d => ..) of GET /:id
MapRowsWithId(rows) ==
    [i \in 1..Len(rows) |->
        [id |-> rows[i].id,
         label |-> rows[i].label,
         confidence |-> toFixed(rows[i].confidence, 100000, 2),
         bbox |-> [x |-> rows[i].bbox_x, y |-> rows[i].bbox_y,
                   width |-> rows[i].bbox_width, height |-> rows[i].bbox_height]]]

NewCall == [kind |-> "none", pc |-> "new", id |-> <<>>, image |-> <<>>,
            response |-> [status |-> 0]]

\* router.delete('/:id'): the SELECT of the filepath is answered: 500 on an
\* error, 404 without a row, else the file is unlinked if it exists and the
\* DELETE is sent
DeleteGet(c) ==
    /\ calls[c].pc = "new"
    /\ \A earlier \in 1..(c - 1) : calls[earlier].pc # "new"
    /\ \E id \in CallIds, err \in BOOLEAN :
          LET row == FirstRow(SelectById(imagesTable, id))
          IN IF err
             THEN /\ calls' = [calls EXCEPT ![c] =
                         [kind |-> "DELETE", pc |-> "done", id |-> id, image |-> <<>>,
                          response |-> [status |-> 500, error |-> "Failed to fetch image"]]]
                  /\ UNCHANGED uploads
             ELSE IF row = <<>>
             THEN /\ calls' = [calls EXCEPT ![c] =
                         [kind |-> "DELETE", pc |-> "done", id |-> id, image |-> <<>>,
                          response |-> [status |-> 404, error |-> "Image not found"]]]
                  /\ UNCHANGED uploads
             ELSE /\ calls' = [calls EXCEPT ![c] =
                         [kind |-> "DELETE", pc |-> "run", id |-> id, image |-> row,
                          response |-> [status |-> 0]]]
                  /\ uploads' = IF existsSync(uploads, row[1].filepath)
                                THEN unlinkSync(uploads, row[1].filepath)
                                ELSE uploads
    /\ UNCHANGED <<imagesTable, detectionsTable, reqs>>

\* the DELETE is answered: 500 on an error, else the row is gone and the
\* response is 200 'Image deleted successfully'
DeleteRun(c) ==
    /\ calls[c].kind = "DELETE"
    /\ calls[c].pc = "run"
    /\ \E err \in BOOLEAN :
          IF err
          THEN /\ calls' = [calls EXCEPT ![c].pc = "done",
                                         ![c].response = [status |-> 500,
                                                          error |-> "Failed to delete image"]]
               /\ UNCHANGED <<imagesTable, detectionsTable>>
          ELSE /\ imagesTable' = DeleteById(imagesTable, calls[c].id)
               /\ detectionsTable' = Cascade(detectionsTable, calls[c].id)
               /\ calls' = [calls EXCEPT ![c].pc = "done",
                                         ![c].response = [status |-> 200,
                                                          message |-> "Image deleted successfully"]]
    /\ UNCHANGED <<uploads, reqs>>

\* router.get('/:id'): the SELECT of the image is answered: 500 on an error,
\* 404 without a row, else the SELECT of its detections is sent
GetImage(c) ==
    /\ calls[c].pc = "new"
    /\ \A earlier \in 1..(c - 1) : calls[earlier].pc # "new"
    /\ \E id \in CallIds, err \in BOOLEAN :
          LET row == FirstRow(SelectById(imagesTable, id))
          IN calls' = [calls EXCEPT ![c] =
                 IF err
                 THEN [kind |-> "GET", pc |-> "done", id |-> id, image |-> <<>>,
                       response |-> [status |-> 500, error |-> "Failed to fetch image"]]
                 ELSE IF row = <<>>
                 THEN [kind |-> "GET", pc |-> "done", id |-> id, image |-> <<>>,
                       response |-> [status |-> 404, error |-> "Image not found"]]
                 ELSE [kind |-> "GET", pc |-> "all", id |-> id, image |-> row,
                       response |-> [status |-> 0]]]
    /\ UNCHANGED <<imagesTable, detectionsTable, uploads, reqs>>

\* the SELECT of the detections is answered: 500 on an error, else 200 with
\* the image row and its detections
GetDetections(c) ==
    /\ calls[c].kind = "GET"
    /\ calls[c].pc = "all"
    /\ \E err \in BOOLEAN :
          calls' = [calls EXCEPT ![c].pc = "done",
                                 ![c].response =
                                     IF err
                                     THEN [status |-> 500,
                                           error |-> "Failed to fetch detections"]
                                     ELSE [status |-> 200,
                                           image |-> calls[c].image[1],
                                           detections |->
                                               MapRowsWithId(
                                                   SelectDetections(detectionsTable,
                                                                    calls[c].id))]]
    /\ UNCHANGED <<imagesTable, detectionsTable, uploads, reqs>>

StoreInit ==
    /\ imagesTable = <<>>
    /\ detectionsTable = <<>>
    /\ uploads = {}
    /\ reqs = [r \in Requests |-> NewRequest]
    /\ calls = [c \in Calls |-> NewCall]
    /\ IdleDetect
    /\ IdleMerge
    /\ IdleHash
    /\ IdleAux

StoreNext ==
    /\ \/ /\ \E r \in Requests :
                \/ Receive(r)
                \/ KeyGet(r)
                \/ KeyAll(r)
                \/ HashGet(r)
                \/ HashAll(r)
                \/ Detect(r)
                \/ InsertImage(r)
                \/ InsertDetection(r)
          /\ UNCHANGED calls
       \/ \E c \in Calls :
             \/ DeleteGet(c)
             \/ DeleteRun(c)
             \/ GetImage(c)
             \/ GetDetections(c)
    /\ UNCHANGED detectVars
    /\ UNCHANGED mergeVars
    /\ UNCHANGED hashVars
    /\ UNCHANGED auxVars

SpecStore == StoreInit /\ [][StoreNext]_vars

(***************************************************************************)
(* Properties of detectPPE (SpecDetect)                                    *)
(***************************************************************************)
CountLabel(dets, label) == Cardinality({i \in 1..Len(dets) : dets[i].label = label})

BlackImage(img) == img.decodable = "ok" /\ \A cell \in Cells : img.tile[cell] = "black"

\* C1: the list returned by detectPPE holds at most 2 helmets, 2 vests and
\* 1 person
C1_CardinalityCap ==
    dpc = "done" =>
        /\ CountLabel(result, "helmet") <= 2
        /\ CountLabel(result, "vest") <= 2
        /\ CountLabel(result, "person") <= 1

InUnit(num, den) == num >= 0 /\ num <= den

\* confidence in [0,1], the four bbox fields in [0,1], x + width <= 1.001 and
\* y + height <= 1.001
InRange(d) ==
    /\ InUnit(d.confidence, 100000)
    /\ InUnit(d.bbox.x, d.bbox.sx) /\ InUnit(d.bbox.width, d.bbox.sx)
    /\ InUnit(d.bbox.y, d.bbox.sy) /\ InUnit(d.bbox.height, d.bbox.sy)
    /\ 1000 * (d.bbox.x + d.bbox.width) <= 1001 * d.bbox.sx
    /\ 1000 * (d.bbox.y + d.bbox.height) <= 1001 * d.bbox.sy

\* C2: every detection returned by detectPPE, for an image of any positive
\* size, has its confidence and its bbox inside the unit ranges
C2_RangeInvariant ==
    dpc = "done" => \A i \in 1..Len(result) : InRange(result[i])

\* C2 witness: a helmet is returned for an image narrower and lower than the
\* 48 pixels of a refined helmet box
C2_Witness ==
    /\ dpc = "done"
    /\ image.width < 48 /\ image.height < 48
    /\ \E i \in 1..Len(result) : result[i].label = "helmet"

\* the fixed fallback detection of a helmet
FallbackHelmet ==
    [label |-> "helmet", confidence |-> 75000, color |-> "none",
     bbox |-> [x |-> 2, y |-> 1, width |-> 6, height |-> 4, sx |-> 10, sy |-> 10]]

\* C3: an undecodable upload whose name contains "helmet" yields exactly the
\* fallback helmet detection
C3_FallbackHelmet ==
    (/\ dpc = "done"
     /\ image.decodable # "ok"
     /\ image.originalname[1] = "helmet")
        => result = <<FallbackHelmet>>

ValidDetection(d) ==
    /\ d.label \in {"helmet", "vest", "person"}
    /\ d.confidence \in 0..100000
    /\ d.bbox.x >= 0 /\ d.bbox.y >= 0 /\ d.bbox.width >= 0 /\ d.bbox.height >= 0
    /\ d.bbox.sx > 0 /\ d.bbox.sy > 0

\* C7: detectPPE never rejects; whatever the file, it resolves to a list of
\* structurally valid detections, the empty list when the file cannot be
\* read or decoded
C7_NeverThrows ==
    /\ ~threw
    /\ dpc = "done" =>
        /\ \A i \in 1..Len(result) : ValidDetection(result[i])
        /\ image.decodable # "ok" => result = <<>>

\* C7 witness: an invocation on a file sharp cannot read has resolved
C7_Witness == dpc = "done" /\ image.decodable = "noMetadata" /\ ~threw

\* C9: a solid-black buffer of any size yields no candidate from any of the
\* four scans, an empty result, and the hash of the empty list
C9_BlackIsEmpty ==
    BlackImage(image) =>
        /\ detections = <<>>
        /\ dpc = "done" =>
            /\ result = <<>>
            /\ generateDetectionHash(result) = generateDetectionHash(<<>>)

\* C9 witness: the four scans ran over a black 200 x 200 buffer, which every
\* scan window fits in
C9_Witness ==
    /\ dpc = "done" /\ BlackImage(image)
    /\ image.width = 200 /\ image.height = 200

(***************************************************************************)
(* Properties of the merger (SpecMerge)                                    *)
(***************************************************************************)
\* C4: two candidates of one label overlapping above the threshold come out
\* as exactly one detection, the input candidate of the higher confidence
C4_TwoCollapse ==
    (/\ mpc = "merged"
     /\ Len(cands) = 2
     /\ cands[1].label = cands[2].label
     /\ Exceeds(calculateOverlap(cands[1].bbox, cands[2].bbox), thr))
        => /\ Len(mergedOut) = 1
           /\ mergedOut[1] \in {cands[1], cands[2]}
           /\ mergedOut[1].confidence >= cands[1].confidence
           /\ mergedOut[1].confidence >= cands[2].confidence

\* C4 witness: the pair overlaps with IoU 6/7 against threshold 0.3 and the
\* second candidate has the higher confidence
C4_Witness ==
    /\ mpc = "merged"
    /\ Len(cands) = 2
    /\ cands[1].label = cands[2].label
    /\ calculateOverlap(cands[1].bbox, cands[2].bbox) = <<192, 224>>
    /\ thr = <<3, 10>>
    /\ cands[2].confidence > cands[1].confidence
    /\ mergedOut = <<cands[2]>>

\* C8: for every label, the merger returns no more detections than it was
\* given candidates
C8_Monotone ==
    mpc = "merged" =>
        \A l \in CandLabels : CountLabel(mergedOut, l) <= CountLabel(cands, l)

\* C8 witness: three candidates of one label went in, fewer came out
C8_Witness ==
    /\ mpc = "merged"
    /\ Len(cands) = 3
    /\ CountLabel(cands, "helmet") = 3
    /\ Len(mergedOut) < 3

\* the IoU <<intersection, union>> lies strictly above, or exactly at, <<num, den>>
StrictlyAbove(iou, t) == iou[1] * t[2] > t[1] * iou[2]
ExactlyAt(iou, t) == iou[1] * t[2] = t[1] * iou[2]

SameLabelPair ==
    /\ Len(cands) = 2
    /\ cands[1].label = cands[2].label

\* the candidates the first candidate, which is the first `current`,
\* consumes: itself and every same-label candidate whose IoU with it lies
\* strictly above the threshold
FirstCluster ==
    {cands[j] : j \in {k \in 1..Len(cands) :
        \/ k = 1
        \/ /\ cands[k].label = cands[1].label
           /\ StrictlyAbove(calculateOverlap(cands[1].bbox, cands[k].bbox), thr)}}

\* C14 as stated: a later same-label candidate whose IoU with the current
\* candidate meets or exceeds the threshold is suppressed, one of the pair
\* comes out
C14_EqualIsSuppressed ==
    (/\ mpc = "merged"
     /\ SameLabelPair
     /\ \/ StrictlyAbove(calculateOverlap(cands[1].bbox, cands[2].bbox), thr)
        \/ ExactlyAt(calculateOverlap(cands[1].bbox, cands[2].bbox), thr))
        => Len(mergedOut) = 1

\* C14, amended: a later same-label candidate is suppressed only when its IoU
\* with the current candidate lies strictly above the threshold: of the
\* candidates the first `current` consumes exactly one comes out, and a
\* candidate whose IoU is exactly equal to the threshold is kept, not
\* suppressed
C14_StrictlyAboveIsSuppressed ==
    (mpc = "merged" /\ Len(cands) >= 1)
    => /\ Cardinality({i \in 1..Len(mergedOut) : mergedOut[i] \in FirstCluster}) = 1
       /\ (/\ SameLabelPair
           /\ ExactlyAt(calculateOverlap(cands[1].bbox, cands[2].bbox), thr))
          => mergedOut = cands

\* C14 witness: two same-label candidates of IoU 96/320 against the threshold
\* 0.3 both came out
C14_Witness ==
    /\ mpc = "merged"
    /\ SameLabelPair
    /\ calculateOverlap(cands[1].bbox, cands[2].bbox) = <<96, 320>>
    /\ thr = <<3, 10>>
    /\ mergedOut = cands

InSeq(e, s) == \E i \in 1..Len(s) : s[i] = e

\* C15: the merger visits the candidates in descending confidence order, so
\* a candidate that does not come out was suppressed by a candidate of equal
\* or higher confidence: one that comes out, has its label and overlaps it
\* above the threshold
C15_SuppressedByHigher ==
    mpc = "merged"
    => \A j \in 1..Len(cands) :
           ~InSeq(cands[j], mergedOut)
           => \E i \in 1..Len(mergedOut) :
                  /\ mergedOut[i].label = cands[j].label
                  /\ mergedOut[i].confidence >= cands[j].confidence
                  /\ StrictlyAbove(calculateOverlap(mergedOut[i].bbox, cands[j].bbox),
                                   thr)

\* how often e occurs in s
Occurrences(e, s) == Cardinality({i \in 1..Len(s) : s[i] = e})

\* C16: the merger performs no box union and no confidence boost: every
\* detection it returns is one of its input candidates, label, confidence,
\* bbox and all, and none is returned more often than it was given
C16_SubMultiset ==
    mpc = "merged"
    => \A i \in 1..Len(mergedOut) :
           /\ Occurrences(mergedOut[i], cands) >= 1
           /\ Occurrences(mergedOut[i], mergedOut) <= Occurrences(mergedOut[i], cands)

\* C16 witness: three overlapping candidates of one label and of different
\* boxes went in; the one that came out is the third, unchanged
C16_Witness ==
    /\ mpc = "merged"
    /\ Len(cands) = 3
    /\ cands[1].label = cands[2].label
    /\ cands[2].label = cands[3].label
    /\ cands[1].bbox # cands[2].bbox
    /\ cands[1].bbox # cands[3].bbox
    /\ cands[2].bbox # cands[3].bbox
    /\ mergedOut = <<cands[3]>>

(***************************************************************************)
(* Properties of the assembler filterAndMergeDetections (SpecMerge)        *)
(***************************************************************************)
\* C17: every detection of the final list has confidence strictly greater
\* than 0.6, whatever candidates the scans handed over
C17_AboveSixTenths ==
    mpc = "assembled"
    => \A i \in 1..Len(mergedOut) : mergedOut[i].confidence > 60000

\* C17 witness: candidates of confidence exactly 0.6, of confidence 0.55 and
\* of confidence 0.9, no two of them overlapping above 0.3, went in and only
\* the last came out
C17_Witness ==
    /\ mpc = "assembled"
    /\ Len(cands) = 3
    /\ cands[1].confidence = 60000
    /\ cands[2].confidence = 55000
    /\ cands[3].confidence = 90000
    /\ cands[1].label # cands[3].label
    /\ cands[2].label # cands[3].label
    /\ mergedOut = <<cands[3]>>

\* where e was discovered: its first index in s
FirstIndex(e, s) ==
    CHOOSE i \in 1..Len(s) : s[i] = e /\ \A k \in 1..(i - 1) : s[k] # e

\* where the label was first discovered among the candidates above 0.6
LabelRank(label, s) ==
    CHOOSE i \in 1..Len(s) :
        /\ s[i].label = label /\ s[i].confidence > 60000
        /\ \A k \in 1..(i - 1) : ~(s[k].label = label /\ s[k].confidence > 60000)

NonIncreasing(out) ==
    \A i \in 1..(Len(out) - 1) : out[i].confidence >= out[i + 1].confidence

\* C18 as stated: the final list is ordered by confidence, non-increasing,
\* and detections of equal confidence appear in the order in which they were
\* first discovered
C18_TiesInDiscoveryOrder ==
    mpc = "assembled"
    => /\ NonIncreasing(mergedOut)
       /\ \A i, j \in 1..Len(mergedOut) :
              (/\ i < j
               /\ mergedOut[i].confidence = mergedOut[j].confidence
               /\ mergedOut[i] # mergedOut[j])
              => FirstIndex(mergedOut[i], cands) < FirstIndex(mergedOut[j], cands)

\* C18, amended: the final list is ordered by confidence, non-increasing,
\* and detections of equal confidence appear grouped by label, the labels in
\* the order in which they were first discovered among the candidates above
\* 0.6
C18_TiesInLabelOrder ==
    mpc = "assembled"
    => /\ NonIncreasing(mergedOut)
       /\ \A i, j \in 1..Len(mergedOut) :
              (i < j /\ mergedOut[i].confidence = mergedOut[j].confidence)
              => LabelRank(mergedOut[i].label, cands)
                     <= LabelRank(mergedOut[j].label, cands)

\* C18 witness: three candidates of one confidence, the second of another
\* label than the first and the third: the third, discovered last, comes out
\* before the second
C18_Witness ==
    /\ mpc = "assembled"
    /\ Len(cands) = 3
    /\ cands[1].confidence = cands[2].confidence
    /\ cands[2].confidence = cands[3].confidence
    /\ cands[1].label = cands[3].label
    /\ cands[1].label # cands[2].label
    /\ cands[1] # cands[3]
    /\ mergedOut = <<cands[1], cands[3], cands[2]>>

\* the candidates but the last
Front(s) == SubSeq(s, 1, Len(s) - 1)

OfLabel(s, label) == SelectSeq(s, LAMBDA d : d.label = label)

\* a list the dedicated scans can hand over: the helmets before the vests,
\* and each of the two lists what a merge at 0.4 returns, so that merging it
\* again changes nothing
ScanOutput(s) ==
    /\ \A i, j \in 1..Len(s) : (i < j /\ s[i].label = "vest") => s[j].label # "helmet"
    /\ \A l \in CandLabels :
           mergeOverlappingDetections(OfLabel(s, l), <<4, 10>>) = OfLabel(s, l)

CallThreshold == IF mpc = "assembled" THEN <<3, 10>> ELSE thr

\* the candidates the call merges: all of them in the merger, those above 0.6
\* in the assembler
Merged(d) == mpc = "merged" \/ d.confidence > 60000

\* C20: two candidates of different labels never suppress each other in the
\* merger or the assembler, whatever their IoU: a candidate that no other
\* candidate of its own label overlaps above the threshold comes out, and
\* for each label the merger returns what it returns for the candidates of
\* that label alone
C20_LabelsIndependent ==
    mpc \in {"merged", "assembled"}
    => /\ \A j \in 1..Len(cands) :
              (/\ Merged(cands[j])
               /\ \A k \in 1..Len(cands) :
                      (k # j /\ Merged(cands[k]) /\ cands[k].label = cands[j].label)
                      => ~StrictlyAbove(calculateOverlap(cands[j].bbox, cands[k].bbox),
                                        CallThreshold))
              => InSeq(cands[j], mergedOut)
       /\ mpc = "merged"
          => \A l \in CandLabels :
                 OfLabel(mergedOut, l)
                     = mergeOverlappingDetections(OfLabel(cands, l), thr)

\* C20 witness: a helmet and a vest of the same box went into the merger and
\* both came out
C20_Witness ==
    /\ mpc = "merged"
    /\ Len(cands) = 2
    /\ cands[1].label = "helmet"
    /\ cands[2].label = "vest"
    /\ cands[1].bbox = cands[2].bbox
    /\ cands[1].confidence < cands[2].confidence
    /\ mergedOut = cands

(***************************************************************************)
(* Properties of generateDetectionHash (SpecHash)                          *)
(***************************************************************************)
\* what the hash is to depend on: label, confidence to 2 decimals, the four
\* bbox fields to 3 decimals, in order
HashKey(dets) ==
    [i \in 1..Len(dets) |->
        <<dets[i].label,
          toFixed(dets[i].confidence, 100000, 2),
          toFixed(dets[i].bbox.x, dets[i].bbox.sx, 3),
          toFixed(dets[i].bbox.y, dets[i].bbox.sy, 3),
          toFixed(dets[i].bbox.width, dets[i].bbox.sx, 3),
          toFixed(dets[i].bbox.height, dets[i].bbox.sy, 3)>>]

\* C6: two lists get the same hash input exactly when they agree, in order,
\* on label, confidence to 2 decimals and x, y, width, height to 3 decimals
C6_HashDependsOnKey ==
    hpc = "out" => (hashA = hashB <=> HashKey(listA) = HashKey(listB))

\* C6 witness: two lists that differ only in the height of one bbox got
\* different hash inputs, and two that differ only in `color` the same
C6_Witness ==
    /\ hpc = "out"
    /\ listA = <<BaseDet, BaseDet>>
    /\ listB = <<BaseDet, [BaseDet EXCEPT !.bbox.height = 4010]>>
    /\ hashA # hashB
    /\ generateDetectionHash(<<[BaseDet EXCEPT !.color = "none"]>>)
         = generateDetectionHash(<<BaseDet>>)

(***************************************************************************)
(* Properties of POST /api/images (SpecApi)                                *)
(***************************************************************************)
\* the idempotency keys clients send
Keys == {"k1", "k2"}

C11_UniqueFileHash ==
    \A i, j \in 1..Len(imagesTable) :
        i # j => imagesTable[i].file_hash # imagesTable[j].file_hash

(***************************************************************************)
(* Properties of the vest scan (SpecDetect)                                *)
(***************************************************************************)
\* an image of high-vis yellow rows carrying a thin white stripe every eighth
\* row, wide and high enough for the first 48 x 48 window of the vest scan to
\* lie inside it
VestScene(img) ==
    /\ img.decodable = "ok"
    /\ img.tile = RowTile("yellow", "white")
    /\ img.rowBands = <<7, 1>>
    /\ img.width > 48
    /\ FloorMul(img.height, 2, 10) + 48 <= img.height

\* the box lies between 20% and 80% of the image height
InTorsoBand(bbox) ==
    /\ 10 * bbox.y >= 2 * bbox.sy
    /\ 10 * (bbox.y + bbox.height) <= 8 * bbox.sy

\* C13 as stated: the yellow striped scene yields a detection labelled
\* 'vest' whose bounding box lies entirely between 20% and 80% of the image
\* height
C13_VestInsideTorsoBand ==
    (dpc = "done" /\ VestScene(image))
    => \E i \in 1..Len(result) :
           /\ result[i].label = "vest"
           /\ InTorsoBand(result[i].bbox)

\* C13, amended: the yellow striped scene scores above the vest accept
\* threshold and yields a detection labelled 'vest'; the box of every vest of
\* the scan is the window widened by refineVestBounds and clipped to the
\* image, not to the torso band: it starts at most 4.8 px above the 20% line
\* and it ends inside the image
C13_VestBoxWithinImage ==
    dpc = "done"
    => /\ VestScene(image)
          => \E i \in 1..Len(result) :
                 /\ result[i].label = "vest"
                 /\ result[i].color = "high-vis"
                 /\ result[i].confidence > 65000
       /\ \A i \in 1..Len(result) :
              (result[i].label = "vest" /\ result[i].color = "high-vis")
              => /\ result[i].bbox.y
                        >= Max(0, 10 * FloorMul(height, 2, 10) - 48)
                 /\ result[i].bbox.y + result[i].bbox.height <= result[i].bbox.sy
                 /\ result[i].bbox.x + result[i].bbox.width <= result[i].bbox.sx

\* a vest of the scan whose box leaves the torso band and is clipped at the
\* bottom of the image
C13_Witness ==
    /\ dpc = "done"
    /\ VestScene(image)
    /\ \E i \in 1..Len(result) :
           /\ result[i].label = "vest"
           /\ result[i].color = "high-vis"
           /\ ~InTorsoBand(result[i].bbox)
           /\ result[i].bbox.y + result[i].bbox.height = result[i].bbox.sy

(***************************************************************************)
(* Properties of DELETE /api/images/:id (SpecStore)                        *)
(***************************************************************************)
\* C12: once DELETE /api/images/:id has answered 'Image deleted
\* successfully', the image row (so that GET /api/images/:id finds no row and
\* answers 404), its file on disk and every detection row of that image_id
\* are gone
C12_DeleteRemovesAll ==
    \A c \in Calls :
        (/\ calls[c].kind = "DELETE" /\ calls[c].pc = "done"
         /\ calls[c].response.status = 200)
        => /\ SelectById(imagesTable, calls[c].id) = <<>>
           /\ ~existsSync(uploads, calls[c].image[1].filepath)
           /\ SelectDetections(detectionsTable, calls[c].id) = <<>>

(***************************************************************************)
(* calculateOverlap in the arithmetic of the JavaScript Number type        *)
(*                                                                         *)
(* The coordinates of a bounding box are Numbers (IEEE-754 binary64): a    *)
(* box coordinate is the quotient k / n of two integers, rounded to the    *)
(* nearest double, and every +, -, * and / of calculateOverlap rounds its  *)
(* exact result to the nearest double, ties to even.  A positive double is *)
(* [m, e] with value m * 2^e and 2^52 <= m < 2^53; zero is [0, 0].  The    *)
(* values that occur lie between 2^-20 and 4, far from overflow, underflow *)
(* and the subnormal range, and none is negative, infinite or NaN.         *)
(***************************************************************************)

\* natural numbers of up to 135 bits as 9 limbs to the base 2^15, least
\* significant limb first
LimbIndex == 1..9
Limbs == Cardinality(LimbIndex)
Base == 2^15

BigOf(n) == [i \in LimbIndex |-> IF i = 1 THEN n % Base
                                 ELSE IF i = 2 THEN (n \div Base) % Base
                                 ELSE IF i = 3 THEN n \div (Base * Base) ELSE 0]

BigZero == [i \in LimbIndex |-> 0]

IsZero(a) == \A i \in LimbIndex : a[i] = 0

Limb(a, i) == IF i \in LimbIndex THEN a[i] ELSE 0

RECURSIVE BigAddFrom(_, _, _, _)
BigAddFrom(a, b, i, carry) ==
    IF i > Limbs THEN <<>>
    ELSE LET s == a[i] + b[i] + carry
         IN <<s % Base>> \o BigAddFrom(a, b, i + 1, s \div Base)

BigAdd(a, b) ==
    CHOOSE r \in {BigAddFrom(x, y, 1, 0) : x \in {a}, y \in {b}} : TRUE

\* a - b for a >= b
RECURSIVE BigSubFrom(_, _, _, _)
BigSubFrom(a, b, i, borrow) ==
    IF i > Limbs THEN <<>>
    ELSE LET s == a[i] - b[i] - borrow
         IN <<(s + Base) % Base>> \o BigSubFrom(a, b, i + 1, IF s < 0 THEN 1 ELSE 0)

BigSub(a, b) ==
    CHOOSE r \in {BigSubFrom(x, y, 1, 0) : x \in {a}, y \in {b}} : TRUE

RECURSIVE BigLessFrom(_, _, _)
BigLessFrom(a, b, i) ==
    IF i = 0 THEN FALSE
    ELSE IF a[i] # b[i] THEN a[i] < b[i]
    ELSE BigLessFrom(a, b, i - 1)

BigLess(a, b) == \E x \in {a}, y \in {b} : BigLessFrom(x, y, Limbs)

BigOdd(a) == a[1] % 2 = 1

\* a * 2^n
BigShl(a, n) ==
    LET ls == n \div 15
        bs == n % 15
    IN [i \in LimbIndex |->
           ((Limb(a, i - ls) * 2^bs) % Base) + (Limb(a, i - ls - 1) \div 2^(15 - bs))]

\* floor(a / 2^n)
BigShr(a, n) ==
    LET ls == n \div 15
        bs == n % 15
    IN [i \in LimbIndex |->
           (Limb(a, i + ls) \div 2^bs) + ((Limb(a, i + ls + 1) % 2^bs) * 2^(15 - bs))]

\* bit n of a, bit 0 being the least significant
BigBit(a, n) == (Limb(a, (n \div 15) + 1) \div 2^(n % 15)) % 2 = 1

RECURSIVE SmallBits(_)
SmallBits(n) == IF n = 0 THEN 0 ELSE 1 + SmallBits(n \div 2)

RECURSIVE BitLenFrom(_, _)
BitLenFrom(a, i) ==
    IF i = 0 THEN 0
    ELSE IF a[i] # 0 THEN 15 * (i - 1) + SmallBits(a[i])
    ELSE BitLenFrom(a, i - 1)

BitLen(a) == BitLenFrom(a, Limbs)

\* a * d for a limb d
RECURSIVE BigMulLimbFrom(_, _, _, _)
BigMulLimbFrom(a, d, i, carry) ==
    IF i > Limbs THEN <<>>
    ELSE LET s == a[i] * d + carry
         IN <<s % Base>> \o BigMulLimbFrom(a, d, i + 1, s \div Base)

BigMulLimb(a, d) ==
    CHOOSE r \in {BigMulLimbFrom(x, d, 1, 0) : x \in {a}} : TRUE

RECURSIVE BigMulFrom(_, _, _)
BigMulFrom(a, b, i) ==
    IF i > Limbs THEN BigZero
    ELSE BigAdd(BigShl(BigMulLimb(a, b[i]), 15 * (i - 1)), BigMulFrom(a, b, i + 1))

BigMul(a, b) == CHOOSE r \in {BigMulFrom(x, y, 1) : x \in {a}, y \in {b}} : TRUE

\* the largest limb d with d * b <= r, its bits found from bit n down
RECURSIVE DigitFrom(_, _, _, _)
DigitFrom(r, b, d, n) ==
    IF n < 0 THEN d
    ELSE IF BigLess(r, BigMulLimb(b, d + 2^n))
         THEN DigitFrom(r, b, d, n - 1)
         ELSE DigitFrom(r, b, d + 2^n, n - 1)

\* <<floor(r * Base^k / b), r * Base^k mod b # 0>> by long division, r < b
RECURSIVE BigDivLoop(_, _, _)
BigDivLoop(s, b, k) ==
    IF k = 0 THEN <<s[2], ~IsZero(s[1])>>
    ELSE CHOOSE res \in {BigDivLoop(t, b, k - 1) : t \in
             {CHOOSE u \in {<<BigSub(r2, BigMulLimb(b, d)),
                              BigAdd(BigShl(s[2], 15), BigOf(d))>> :
                                  d \in {DigitFrom(r2, b, 0, 14)}} : TRUE :
                  r2 \in {BigShl(s[1], 15)}}} : TRUE

\* <<floor(a * 2^60 / b), whether the division is inexact>> for a < 2 b
BigDiv60(a, b) ==
    LET q0 == IF BigLess(a, b) THEN 0 ELSE 1
        r0 == IF q0 = 0 THEN a ELSE BigSub(a, b)
    IN BigDivLoop(<<r0, BigOf(q0)>>, b, 4)

(***************************************************************************)
(* IEEE 754 binary64, positive normal numbers and zero: [m, e] is m * 2^e  *)
(* with 2^52 <= m < 2^53, zero is m = 0                                    *)
(***************************************************************************)
DZero == [m |-> BigZero, e |-> 0]

\* n * 2^e, with `inexact` telling that n is the floor of the exact
\* mantissa, rounded to nearest, ties to even
Round(n, e, inexact) ==
    IF IsZero(n) THEN DZero
    ELSE LET len == BitLen(n)
         IN IF len <= 53 THEN [m |-> BigShl(n, 53 - len), e |-> e - (53 - len)]
            ELSE LET s == len - 53
                     q == BigShr(n, s)
                     guard == BigBit(n, s - 1)
                     sticky == inexact \/ ~IsZero(BigSub(BigShr(n, 0),
                                                         BigShl(BigShr(n, s - 1), s - 1)))
                     up == guard /\ (sticky \/ BigOdd(q))
                     q1 == IF up THEN BigAdd(q, BigOf(1)) ELSE q
                 IN IF BitLen(q1) = 54 THEN [m |-> BigShr(q1, 1), e |-> e + s + 1]
                    ELSE [m |-> q1, e |-> e + s]

\* the double nearest to p / q for naturals p, q below 2^30, q > 0
DOfRatio(p, q) ==
    IF p = 0 THEN DZero
    ELSE LET lp == SmallBits(p)
             lq == SmallBits(q)
             \* p * 2^sp and q * 2^sq of one bit length, so that num < 2 den
             num == BigShl(BigOf(p), IF lq > lp THEN lq - lp ELSE 0)
             den == BigShl(BigOf(q), IF lp > lq THEN lp - lq ELSE 0)
             res == BigDiv60(num, den)
         IN Round(res[1], lp - lq - 60, res[2])

DAddSub(a, b, sub) ==
    IF IsZero(b.m) THEN a
    ELSE IF IsZero(a.m) THEN b
    ELSE LET lo == IF a.e < b.e THEN a.e ELSE b.e
             am == BigShl(a.m, a.e - lo)
             bm == BigShl(b.m, b.e - lo)
         IN Round(IF sub THEN BigSub(am, bm) ELSE BigAdd(am, bm), lo, FALSE)

DAdd(a, b) == DAddSub(a, b, FALSE)
\* a - b for a >= b
DSub(a, b) == DAddSub(a, b, TRUE)

DMul(a, b) ==
    IF IsZero(a.m) \/ IsZero(b.m) THEN DZero
    ELSE Round(BigMul(a.m, b.m), a.e + b.e, FALSE)

\* a / b for b > 0
DDiv(a, b) ==
    IF IsZero(a.m) THEN DZero
    ELSE LET res == BigDiv60(a.m, b.m)
         IN Round(res[1], a.e - b.e - 60, res[2])

DLess(a, b) ==
    IF IsZero(b.m) THEN FALSE
    ELSE IF IsZero(a.m) THEN TRUE
    ELSE IF a.e # b.e THEN a.e < b.e
    ELSE BigLess(a.m, b.m)

DLeq(a, b) == ~DLess(b, a)
DMax(a, b) == IF DLess(a, b) THEN b ELSE a
DMin(a, b) == IF DLess(b, a) THEN b ELSE a
DOne == DOfRatio(1, 1)

\* the Number x / sx of a box coordinate (detection.js 541-544, 552-555)
NumberBox(b) ==
    [x |-> DOfRatio(b.x, b.sx), y |-> DOfRatio(b.y, b.sy),
     width |-> DOfRatio(b.width, b.sx), height |-> DOfRatio(b.height, b.sy)]

\* area1 + area2 - intersection of two boxes that intersect
unionArea(b1, b2, intersection) ==
    DSub(DAdd(DMul(b1.width, b1.height), DMul(b2.width, b2.height)), intersection)

\* calculateOverlap on Numbers
calculateOverlapNumber(b1, b2) ==
    LET x1 == DMax(b1.x, b2.x)
        y1 == DMax(b1.y, b2.y)
        x2 == DMin(DAdd(b1.x, b1.width), DAdd(b2.x, b2.width))
        y2 == DMin(DAdd(b1.y, b1.height), DAdd(b2.y, b2.height))
    IN IF DLeq(x2, x1) \/ DLeq(y2, y1) THEN DZero
       ELSE LET intersection == DMul(DSub(x2, x1), DSub(y2, y1))
            IN DDiv(intersection, unionArea(b1, b2, intersection))

\* the boxes k/10 and the dyadic boxes of the merger's candidates
MaxCoord == 3

OverlapBoxes ==
    {[x |-> x, y |-> 1, width |-> w, height |-> h, sx |-> 10, sy |-> 10] :
        x \in 0..MaxCoord, w \in 0..MaxCoord, h \in {0, 2}}
    \cup CandBoxes

OverlapInit ==
    /\ ovA \in OverlapBoxes
    /\ ovB \in {b \in OverlapBoxes : b.sx = ovA.sx /\ b.sy = ovA.sy}
    /\ ovR = <<>>
    /\ opc = "in"
    /\ IdleWindow
    /\ IdleScene
    /\ IdlePair
    /\ IdleDetect
    /\ IdleMerge
    /\ IdleHash
    /\ IdleApi

\* a call calculateOverlap(ovA, ovB)
OverlapCall ==
    /\ opc = "in"
    /\ ovR' = calculateOverlapNumber(NumberBox(ovA), NumberBox(ovB))
    /\ opc' = "out"
    /\ UNCHANGED <<ovA, ovB>>

OverlapNext ==
    /\ OverlapCall
    /\ UNCHANGED windowVars
    /\ UNCHANGED sceneVars
    /\ UNCHANGED pairVars
    /\ UNCHANGED detectVars
    /\ UNCHANGED mergeVars
    /\ UNCHANGED hashVars
    /\ UNCHANGED apiVars

SpecOverlap == OverlapInit /\ [][OverlapNext]_vars

(***************************************************************************)
(* Properties of calculateOverlap                                          *)
(***************************************************************************)

\* the boxes share no interior point (they are apart or touch at an edge)
Apart(a, b) ==
    \/ a.x + a.width <= b.x \/ b.x + b.width <= a.x
    \/ a.y + a.height <= b.y \/ b.y + b.height <= a.y
    \/ a.width = 0 \/ a.height = 0 \/ b.width = 0 \/ b.height = 0

\* C21: calculateOverlap returns a value in [0, 1], the same value with
\* its arguments exchanged, 0 for boxes that do not overlap or only touch
\* at an edge, and 1 for two identical boxes of positive area
C21_StandardIoU ==
    opc = "out" =>
        /\ DLeq(ovR, DOne)
        /\ ovR = calculateOverlapNumber(NumberBox(ovB), NumberBox(ovA))
        /\ Apart(ovA, ovB) => ovR = DZero
        /\ (ovA = ovB /\ ~Apart(ovA, ovB)) => ovR = DOne

\* on the dyadic boxes of the merger's candidates the Number returned is
\* the double nearest to the exact quotient computed by calculateOverlap
ExactOnCandBoxes ==
    (opc = "out" /\ ovA \in CandBoxes) =>
        LET exact == calculateOverlap(ovA, ovB)
        IN ovR = DOfRatio(exact[1], exact[2])

(***************************************************************************)
(* One window of each scan.  A pass extracts the window at (x, y), scores  *)
(* it, pushes what the scorer accepts, and hands the list to its merger or *)
(* its loop over the regions; detectPPEObjects hands that to               *)
(* filterAndMergeDetections.  The windows include corners on the right and *)
(* bottom border of the buffer, where extractImageRegion finds no pixel.   *)
(***************************************************************************)
WindowImages ==
    {i \in Images : i.decodable = "ok" /\ i.width = 200 /\ i.height = 200}

WindowCorners == {0, 48, 96, 200}

\* [analysis, hits, dets, final] of a pass over the single window
WindowResult(class, analysis, hits, dets) ==
    [class |-> class, analysis |-> analysis, hits |-> hits, dets |-> dets,
     final |-> filterAndMergeDetections(dets)]

WindowRegion(blockSize) ==
    extractImageRegion(win.img, win.img.width, win.img.height,
                       win.x, win.y, blockSize, blockSize)

\* detectHelmets on the window
HelmetWindow ==
    LET blockSize == 32
        helmetAnalysis == analyzeHelmetRegion(WindowRegion(blockSize), blockSize)
        hits == HelmetHit(helmetAnalysis,
                          refineHelmetBounds(win.img, win.img.width, win.img.height,
                                             win.x, win.y, blockSize),
                          win.img.width, win.img.height)
    IN WindowResult("helmet", helmetAnalysis, hits,
                    mergeOverlappingDetections(hits, <<3, 10>>))

\* detectVests on the window
VestWindow ==
    LET blockSize == 48
        vestAnalysis == analyzeVestRegion(WindowRegion(blockSize), blockSize)
        hits == VestHit(vestAnalysis,
                        refineVestBounds(win.img, win.img.width, win.img.height,
                                         win.x, win.y, blockSize),
                        win.img.width, win.img.height)
    IN WindowResult("vest", vestAnalysis, hits,
                    mergeOverlappingDetections(hits, <<4, 10>>))

\* findPersonRegions and detectPerson on the window
PersonWindow ==
    LET blockSize == 64
        skinToneScore == analyzeSkinTone(WindowRegion(blockSize))
        hits == PersonHit(skinToneScore, win.x, win.y, blockSize)
    IN WindowResult("person", [confidence |-> skinToneScore], hits,
                    PersonDetections(hits, win.img.width, win.img.height))

\* findFullBodyPPE and detectFullPPE on the window
FullBodyWindow ==
    LET largeBlockSize == 96
        uniformity == analyzeUniformity(WindowRegion(largeBlockSize))
        hits == FullBodyHit(uniformity, win.x, win.y, largeBlockSize,
                            win.img.width, win.img.height)
    IN WindowResult("fullBody", uniformity, hits, FullPPEDetections(hits))

WindowInit ==
    /\ win \in {[img |-> i, x |-> x, y |-> y] :
                   i \in WindowImages, x \in WindowCorners, y \in WindowCorners}
    /\ wres = <<>>
    /\ wpc = "in"
    /\ IdleOverlap
    /\ IdleScene
    /\ IdlePair
    /\ IdleDetect
    /\ IdleMerge
    /\ IdleHash
    /\ IdleApi

ScanHelmet == wpc = "in" /\ wres' = HelmetWindow /\ wpc' = "out" /\ UNCHANGED win
ScanVest == wpc = "in" /\ wres' = VestWindow /\ wpc' = "out" /\ UNCHANGED win
ScanPerson == wpc = "in" /\ wres' = PersonWindow /\ wpc' = "out" /\ UNCHANGED win
ScanFullBody == wpc = "in" /\ wres' = FullBodyWindow /\ wpc' = "out" /\ UNCHANGED win

WindowNext ==
    /\ \/ ScanHelmet
       \/ ScanVest
       \/ ScanPerson
       \/ ScanFullBody
    /\ UNCHANGED overlapVars
    /\ UNCHANGED sceneVars
    /\ UNCHANGED pairVars
    /\ UNCHANGED detectVars
    /\ UNCHANGED mergeVars
    /\ UNCHANGED hashVars
    /\ UNCHANGED apiVars

SpecWindow == WindowInit /\ [][WindowNext]_vars

(***************************************************************************)
(* Properties of the single window                                         *)
(***************************************************************************)

\* the number of pixels a window of the class covers
BlockSizeOf(class) ==
    IF class = "helmet" THEN 32 ELSE IF class = "vest" THEN 48
    ELSE IF class = "person" THEN 64 ELSE 96

Covered == PLen(WindowRegion(BlockSizeOf(wres.class)))

\* the confidence a scorer gave, as a number of 1/100000
ScoreOf(r) ==
    IF r.class = "fullBody" THEN (100000 * r.analysis.score[1]) \div r.analysis.score[2]
    ELSE r.analysis.confidence

\* C22: a window that covers no pixel is scored 0 and rejected, and the
\* empty list of candidates leaves the merger and the assembler empty
C22_EmptyDegrades ==
    wpc = "out" =>
        /\ Covered = 0 => (ScoreOf(wres) = 0 /\ wres.hits = <<>>)
        /\ wres.hits = <<>> => (wres.dets = <<>> /\ wres.final = <<>>)

C22_Witness ==
    /\ wpc = "out" /\ Covered = 0 /\ wres.class = "person"
    /\ win.y = 0 /\ wres.final = <<>>

\* the window's centre lies in the top 40% of the image
TopRegion == 10 * (win.y + 16) < 4 * win.img.height

\* the sums S the gate weights +0.4 colour, +0.3, +0.25, +0.15 and +0.1
\* position can give the window, the three gates on variance, roundness
\* and edge intensity being open
GateSums ==
    {(IF wres.analysis.color # "unknown" THEN 40000 ELSE 0)
     + (IF TopRegion THEN 10000 ELSE 0) + a + b + c :
        a \in {0, 30000}, b \in {0, 25000}, c \in {0, 15000}}

\* a = b up to the rounding error of a sum of doubles
Near(a, b) == a - b \in {0 - 1, 0, 1}

\* C23: the helmet scorer's confidence is min(0.98, S) for the sum S of
\* the weights 0.4, 0.3, 0.25, 0.15, 0.1 of its satisfied gates, and the
\* window is accepted exactly when S > 0.7
C23_HelmetWeights ==
    (wpc = "out" /\ wres.class = "helmet" /\ Covered > 0) =>
        \E S \in GateSums :
            /\ Near(wres.analysis.confidence, Min(98000, S))
            /\ wres.analysis.isHelmet <=> S > 70000

(***************************************************************************)
(* The scene analysis of persons (the second copy of the detector,         *)
(* src/unnamed/part_000 474-526 and 778-795): one score for the whole      *)
(* buffer.  The weights are sums of at most six decimals none of which     *)
(* comes within 0.04 of the threshold 0.5, so they are added exactly.      *)
(***************************************************************************)

\* every pixel of the buffer has one colour
OneColour(img) == \A c1, c2 \in Cells : img.tile[c1] = img.tile[c2]

\* |(r + g + b) / 3 - avgBrightness| > 50 for a pixel, avgBrightness being
\* total / (3 n)
FarFromAverage(p, total, n) == Abs(Sum3(p) * n - total) > 150 * n

\* some pixel lies more than 50 from the average brightness
HasVariation(pixels, total, n) ==
    \E cell \in Cells :
        /\ CellCount(pixels, cell) > 0
        /\ FarFromAverage(CellPixel(pixels, cell), total, n)

\* the record analyzeFullImage returns
FullImageResult(hasSkinTones, hasVariation) ==
    [hasSkinTones |-> hasSkinTones,
     hasClothingColors |-> hasVariation,
     sceneComplexity |-> IF hasVariation THEN 60000 ELSE 30000,
     colorUniformity |-> IF hasVariation THEN 40000 ELSE 80000,
     distinctRegions |-> 3]

\* avgBrightness > 80 && avgBrightness < 200, avgBrightness = total / (3 n)
FullImageOf(pixels, total, n) ==
    FullImageResult(total > 240 * n /\ total < 600 * n, HasVariation(pixels, total, n))

FullImagePixels(pixels) == FullImageOf(pixels, SumPixels(pixels, Sum3), PLen(pixels))

analyzeFullImage(imageData, w0, h0) ==
    FullImagePixels(extractImageRegion(imageData, w0, h0, 0, 0, w0, h0))

\* the sum of the weights of analyzeForPersonPresence
PresenceSum(analysis, w0, h0) ==
    20000 + (IF analysis.hasSkinTones THEN 25000 ELSE 0)
          + (IF analysis.hasClothingColors THEN 20000 ELSE 0)
          + (IF analysis.sceneComplexity > 40000 THEN 20000 ELSE 0)
          + (IF 10 * h0 > 12 * w0 THEN 10000 ELSE 0)
          + (IF analysis.distinctRegions > 2 THEN 15000 ELSE 0)

\* `if (analysis.colorUniformity > 0.8) confidence *= 0.4`
PresenceDamped(analysis, confidence) ==
    IF analysis.colorUniformity > 80000 THEN (confidence * 4) \div 10 ELSE confidence

PresenceVerdict(confidence) ==
    [isPerson |-> confidence > 50000,
     confidence |-> Min(92000, confidence)]

PresenceOf(analysis, w0, h0) ==
    PresenceVerdict(PresenceDamped(analysis, PresenceSum(analysis, w0, h0)))

analyzeForPersonPresence(imageData, w0, h0) ==
    PresenceOf(analyzeFullImage(imageData, w0, h0), w0, h0)

\* detectPerson of the scene analysis; its bbox is in pixels
PersonSceneHit(personScore, w0, h0) ==
    IF personScore.isPerson
    THEN <<[label |-> "person",
            confidence |-> personScore.confidence,
            bbox |-> [x |-> FloorMul(w0, 1, 10), y |-> FloorMul(h0, 1, 10),
                      width |-> FloorMul(w0, 8, 10),
                      height |-> FloorMul(h0, 8, 10)]]>>
    ELSE <<>>

detectPersonScene(imageData, w0, h0) ==
    PersonSceneHit(analyzeForPersonPresence(imageData, w0, h0), w0, h0)

SceneInit ==
    /\ scene \in {i \in Images : i.decodable = "ok"}
    /\ sceneOut = <<>>
    /\ spc = "in"
    /\ IdleOverlap
    /\ IdleWindow
    /\ IdlePair
    /\ IdleDetect
    /\ IdleMerge
    /\ IdleHash
    /\ IdleApi

DetectPersonScene ==
    /\ spc = "in"
    /\ sceneOut' = detectPersonScene(scene, scene.width, scene.height)
    /\ spc' = "out"
    /\ UNCHANGED scene

SceneNext ==
    /\ DetectPersonScene
    /\ UNCHANGED overlapVars
    /\ UNCHANGED windowVars
    /\ UNCHANGED pairVars
    /\ UNCHANGED detectVars
    /\ UNCHANGED mergeVars
    /\ UNCHANGED hashVars
    /\ UNCHANGED apiVars

SpecScene == SceneInit /\ [][SceneNext]_vars

\* C24: an image whose pixels all have the same colour is never reported
\* as containing a person
C24_UniformHasNoPerson ==
    (spc = "out" /\ OneColour(scene)) => sceneOut = <<>>

(***************************************************************************)
(* Properties of the full-kit window                                       *)
(***************************************************************************)

\* b is the part of the 96 x 96 window at (win.x, win.y) from `top` tenths
\* of a pixel below its upper edge over `tall` tenths of a pixel
WindowPart(b, top, tall) ==
    /\ b.sx = 10 * win.img.width /\ b.sy = 10 * win.img.height
    /\ b.x = 10 * win.x /\ b.width = 960
    /\ b.y = 10 * win.y + top /\ b.height = tall

\* 0.8 where the window's position matches the role, 0.3 otherwise
RoleConfidence(matches) == IF matches THEN 80000 ELSE 30000

\* C25: every accepted full-kit window yields exactly one helmet and one
\* vest detection, the helmet box the top 30% of the window and the vest
\* box the remaining 70% (same x and width, no overlap, union the window),
\* with confidence 0.8 where the window position matches the role and 0.3
\* otherwise
C25_Decomposes ==
    (wpc = "out" /\ wres.class = "fullBody" /\ wres.hits # <<>>) =>
        /\ Len(wres.dets) = 2
        /\ \E h, v \in 1..2 :
              /\ wres.dets[h].label = "helmet" /\ wres.dets[v].label = "vest"
              /\ WindowPart(wres.dets[h].bbox, 0, 288)
              /\ WindowPart(wres.dets[v].bbox, 288, 672)
              /\ calculateOverlap(wres.dets[h].bbox, wres.dets[v].bbox)[1] = 0
              /\ wres.dets[h].confidence
                     = RoleConfidence(10 * win.y < 3 * win.img.height)
              /\ wres.dets[v].confidence
                     = RoleConfidence(10 * win.y > 2 * win.img.height)

(***************************************************************************)
(* Concurrent invocations of detectPPE.  Every invocation has its own      *)
(* locals (the image path, width, height, the array `detections`); the     *)
(* module's only top-level binding is the constant PPE_COLORS.  An         *)
(* invocation yields at each await of analyzeImageForPPE and               *)
(* detectPPEObjects, where the other invocation may run.                   *)
(***************************************************************************)
Invocations == {1, 2}

PairImages ==
    {i \in Images : i.decodable = "ok" /\ i.width = 100 /\ i.height = 100
                    /\ OneColour(i)}
    \cup {i \in Images : i.decodable # "ok" /\ i.originalname = <<"site", ".jpg">>}

NewInvocation(img) ==
    [image |-> img, dpc |-> "getImageInfo", width |-> 0, height |-> 0,
     detections |-> <<>>, result |-> <<>>]

\* `detections.push(...found)` on the array of every invocation, as if the
\* array were a binding of the module
PushShared(invs, k, found) ==
    [j \in DOMAIN invs |-> [invs[j] EXCEPT !.detections = @ \o found]]

\* `detections.push(...found)` on the local array of invocation k
Push(invs, k, found) == [invs EXCEPT ![k].detections = @ \o found]

\* the code of invocation k from its await point to the next
InvStep(invs, k) ==
    LET s == invs[k]
    IN CASE s.dpc = "getImageInfo" ->
              IF s.image.decodable = "noMetadata"
              THEN [invs EXCEPT ![k].result = NoDetections, ![k].dpc = "done"]
              ELSE [invs EXCEPT ![k].width = s.image.width,
                                ![k].height = s.image.height,
                                ![k].dpc = "loadImage"]
         [] s.dpc = "loadImage" ->
              IF s.image.decodable = "noPixels"
              THEN [invs EXCEPT ![k].result = NoDetections, ![k].dpc = "done"]
              ELSE [invs EXCEPT ![k].dpc = "detectPerson"]
         [] s.dpc = "detectPerson" ->
              [Push(invs, k, detectPerson(s.image, s.width, s.height))
                  EXCEPT ![k].dpc = "detectHelmets"]
         [] s.dpc = "detectHelmets" ->
              [Push(invs, k, detectHelmets(s.image, s.width, s.height))
                  EXCEPT ![k].dpc = "detectVests"]
         [] s.dpc = "detectVests" ->
              [Push(invs, k, detectVests(s.image, s.width, s.height))
                  EXCEPT ![k].dpc = "detectFullPPE"]
         [] s.dpc = "detectFullPPE" ->
              LET pushed == Push(invs, k, detectFullPPE(s.image, s.width, s.height))
              IN [pushed EXCEPT
                     ![k].result = filterAndMergeDetections(pushed[k].detections),
                     ![k].dpc = "done"]
         [] OTHER -> invs

PairInit ==
    /\ inv \in [Invocations -> {NewInvocation(i) : i \in PairImages}]
    /\ ppeColors = PPE_COLORS
    /\ IdleOverlap
    /\ IdleWindow
    /\ IdleScene
    /\ IdleDetect
    /\ IdleMerge
    /\ IdleHash
    /\ IdleApi

Resume(k) ==
    /\ inv[k].dpc # "done"
    /\ inv' = InvStep(inv, k)
    /\ UNCHANGED ppeColors

PairNext ==
    /\ \E k \in Invocations : Resume(k)
    /\ UNCHANGED overlapVars
    /\ UNCHANGED windowVars
    /\ UNCHANGED sceneVars
    /\ UNCHANGED detectVars
    /\ UNCHANGED mergeVars
    /\ UNCHANGED hashVars
    /\ UNCHANGED apiVars

SpecPair == PairInit /\ [][PairNext]_vars

\* the invocation run to its end with no other invocation around
RECURSIVE RunAlone(_)
RunAlone(invs) ==
    IF invs[1].dpc = "done" THEN invs[1].result
    ELSE CHOOSE r \in {RunAlone(next) : next \in {InvStep(invs, 1)}} : TRUE

Alone(img) == RunAlone(<<NewInvocation(img)>>)

\* C26: whatever the interleaving of two detectPPE invocations, each one
\* returns the list it returns when run alone, and PPE_COLORS is never
\* written
C26_NoInterference ==
    /\ ppeColors = PPE_COLORS
    /\ \A k \in Invocations :
          inv[k].dpc = "done" => inv[k].result = Alone(inv[k].image)

\* both invocations are done, their steps having alternated, and one
\* returned detections
C26_Witness ==
    /\ \A k \in Invocations : inv[k].dpc = "done"
    /\ inv[1].result # <<>>
    /\ inv[1].image # inv[2].image

(***************************************************************************)
(* Properties of the merger's output                                       *)
(***************************************************************************)

\* no two detections of the list have one label and IoU above t
PairwiseApart(dets, t) ==
    \A i, j \in 1..Len(dets) : i < j => ~Overlaps(dets[i], dets[j], t)

\* C27: the detections mergeOverlappingDetections(list, t) returns are
\* pairwise non-overlapping at t within each label, whatever the order of
\* the list, and merging them again changes nothing
C27_SurvivorsApart ==
    mpc = "merged" =>
        /\ PairwiseApart(mergedOut, thr)
        /\ mergeOverlappingDetections(mergedOut, thr) = mergedOut

(***************************************************************************)
(* Properties of the stored rows (SpecApi)                                 *)
(***************************************************************************)

\* C28: no two rows of the table images carry the same non-null
\* idempotency_key, also when the requests carrying it are in flight
\* together
C28_UniqueIdempotencyKey ==
    \A i, j \in 1..Len(imagesTable) :
        (i # j /\ imagesTable[i].idempotency_key # NoKey)
            => imagesTable[i].idempotency_key # imagesTable[j].idempotency_key

\* C29: a POST that answers 500 leaves no image row and no detection row
\* of its upload behind, so that every stored image row of a finished
\* request has all the detections its detections_hash was computed from
C29_AllOrNothing ==
    \A r \in Requests :
        (reqs[r].pc = "done" /\ reqs[r].response.status = 500) =>
            /\ \A i \in 1..Len(imagesTable) : imagesTable[i].id # reqs[r].imageId
            /\ SelectDetections(detectionsTable, reqs[r].imageId) = <<>>

(***************************************************************************)
(* Properties of the colour gates (SpecWindow)                             *)
(***************************************************************************)

\* the average colour of the window the pass looked at
AverageColour == analyzeColors(WindowRegion(BlockSizeOf(wres.class))).dominant

InHelmetRange(color) ==
    \E i \in 1..Len(HelmetColorNames) :
        isColorInRange(color, PPE_COLORS.helmet[HelmetColorNames[i]])

\* C30: a window is accepted as a helmet only if its average colour lies
\* in one of the helmet colour ranges, and as a vest only if its average
\* colour lies in the high-visibility range
C30_ColourIsNecessary ==
    (wpc = "out" /\ wres.hits # <<>>) =>
        /\ wres.class = "helmet" => InHelmetRange(AverageColour)
        /\ wres.class = "vest" => isColorInRange(AverageColour, PPE_COLORS.vest.highVis)

\* a window accepted as a vest
C30_Witness ==
    /\ wpc = "out" /\ wres.class = "vest" /\ wres.hits # <<>>
    /\ wres.analysis.confidence > 65000

====
